---- MODULE Spec2Model ----
(***************************************************************************)
(* Stock-summary synchronisation and query engine of the employee-admin    *)
(* backend (stockSummaryController).  Requests are modelled as processes   *)
(* that take one step per database round trip (each await on the store),   *)
(* so that concurrent requests interleave exactly where the code can.      *)
(*                                                                         *)
(* Time is counted in half days: DayLen ticks make one day.  Strings that  *)
(* the search filter inspects are sequences of one-character strings.      *)
(***************************************************************************)
EXTENDS Integers, Sequences, FiniteSets, TLC

\* ------------------------------------------------------------------ bounds

\* Largest value of the clock.
MaxTime == 1
\* Largest number of vouchers of the voucher collection (concurrent model).
MaxVouchers == 2
\* Largest number of day-book documents of the day-book collection.
MaxDayBooks == 2
\* Largest number of snapshot documents ever created in one behaviour.
MaxDocs == 2
\* Largest number of vouchers of the voucher collection (query model).
MaxQueryVouchers == 5
\* Largest limit parameter of a query, the default apart.
MaxLimit == 2
\* Largest page parameter of a query.
MaxPage == 3

\* ------------------------------------------------------- program constants

\* 1000 * 60 * 60 * 24 milliseconds, in ticks.
DayLen == 2
\* dueDate.setMonth(dueDate.getMonth() + 12), in ticks.
TwelveMonths == 4
\* limit = 100 when the request gives none.
DefaultLimit == 100

Procs == {1, 2}

Statuses == {"Active", "Partial", "Overdue", "Closed"}

\* ------------------------------------------------------------ JS helpers

\* a || b on numbers: 0 is falsy.
OrNum(a, b) == IF a = 0 THEN b ELSE a

\* a || b on strings: the empty string (and a missing value) is falsy.
OrStr(a, b) == IF a = "" THEN b ELSE a

\* a || b on character sequences.
OrSeq(a, b) == IF a = <<>> THEN b ELSE a

\* Math.ceil(n / d) for d > 0.
\* Math.floor in the place of Math.ceil.
FloorDiv(n, d) == n \div d

CeilDiv(n, d) == IF n >= 0 THEN (n + d - 1) \div d ELSE -((-n) \div d)

Min(a, b) == IF a < b THEN a ELSE b

Max(a, b) == IF a > b THEN a ELSE b

\* String.prototype.toLowerCase, one character.
LowerChar(c) ==
    CASE c = "A" -> "a"
      [] c = "B" -> "b"
      [] c = "C" -> "c"
      [] OTHER -> c

ToLowerCase(s) == [i \in 1..Len(s) |-> LowerChar(s[i])]

\* String.prototype.includes: sub occurs in s as a contiguous substring.
Includes(s, sub) ==
    \E k \in 0..(Len(s) - Len(sub)) :
        \A i \in 1..Len(sub) : s[k + i] = sub[i]

\* Array.prototype.slice(start, end) on an array of length Len(s): negative
\* indices count from the end, and both are clamped to the array.
Slice(s, start, end) ==
    LET n == Len(s)
        from == IF start < 0 THEN Max(n + start, 0) ELSE Min(start, n)
        to == IF end < 0 THEN Max(n + end, 0) ELSE Min(end, n)
    IN  IF to <= from THEN <<>> ELSE SubSeq(s, from + 1, to)

\* ----------------------------------------------------------- the sources

\* Reference to a voucher document (its _id).
VoucherRef(k) == <<0, k>>

\* _id of the i-th loan subdocument of snapshot document d.
LoanId(d, i) == <<1, d, i>>

\* The voucher documents that may be in the voucher collection.
VoucherPool ==
    << [id |-> VoucherRef(1), billNo |-> <<"B", "1">>,
        customerId |-> <<"c", "1">>, customerName |-> <<"A", "n">>,
        customerPhone |-> <<"9", "1">>, jewelType |-> "gold",
        finalLoanAmount |-> 10, overallLoanAmount |-> 12,
        disbursementDate |-> -1, dueDate |-> 0, status |-> "Active",
        repaidAmount |-> 0, balanceAmount |-> 12, paymentProgress |-> 0,
        closedDate |-> <<>>],
       [id |-> VoucherRef(2), billNo |-> <<"b", "2">>,
        customerId |-> <<"c", "2">>, customerName |-> <<"B", "o">>,
        customerPhone |-> <<"9", "2">>, jewelType |-> "silver",
        finalLoanAmount |-> 20, overallLoanAmount |-> 22,
        disbursementDate |-> -2, dueDate |-> 0, status |-> "Closed",
        repaidAmount |-> 22, balanceAmount |-> 0, paymentProgress |-> 100,
        closedDate |-> <<-1>>],
       [id |-> VoucherRef(3), billNo |-> <<"B", "3">>,
        customerId |-> <<"c", "3">>, customerName |-> <<"D", "i">>,
        customerPhone |-> <<"9", "3">>, jewelType |-> "",
        finalLoanAmount |-> 30, overallLoanAmount |-> 33,
        disbursementDate |-> -3, dueDate |-> 2, status |-> "Partial",
        repaidAmount |-> 11, balanceAmount |-> 22, paymentProgress |-> 33,
        closedDate |-> <<>>],
       [id |-> VoucherRef(4), billNo |-> <<"a", "4">>,
        customerId |-> <<>>, customerName |-> <<>>,
        customerPhone |-> <<>>, jewelType |-> "gold",
        finalLoanAmount |-> 0, overallLoanAmount |-> 0,
        disbursementDate |-> -4, dueDate |-> 9, status |-> "Overdue",
        repaidAmount |-> 0, balanceAmount |-> 0, paymentProgress |-> 0,
        closedDate |-> <<>>],
       [id |-> VoucherRef(5), billNo |-> <<"B", "5">>,
        customerId |-> <<"c", "5">>, customerName |-> <<"C", "y">>,
        customerPhone |-> <<"8", "5">>, jewelType |-> "gold",
        finalLoanAmount |-> 50, overallLoanAmount |-> 55,
        disbursementDate |-> -5, dueDate |-> -2, status |-> "Active",
        repaidAmount |-> 0, balanceAmount |-> 55, paymentProgress |-> 0,
        closedDate |-> <<>>] >>

\* A transaction of a day-book list.  voucherId <<>> and billNo <<>> stand for
\* a missing field, createdAt <<>> for a transaction without its own date.
Tx(v, bill, amount, jewel, created) ==
    [voucherId |-> v, billNo |-> bill, amount |-> amount, jewelType |-> jewel,
     customerId |-> <<>>, customerName |-> <<>>, createdAt |-> created]

\* The day-book documents that may be in the day-book collection.
DayBookPool ==
    << [id |-> <<2, 1>>, date |-> -4,
        loansDisbursed |-> << Tx(VoucherRef(6), <<"D", "6">>, 40, "gold", <<>>),
                              Tx(<<>>, <<"D", "7">>, 70, "gold", <<>>) >>,
        closedLoans |-> << Tx(VoucherRef(8), <<"D", "8">>, 80, "silver", <<>>) >>],
       [id |-> <<2, 2>>, date |-> -5,
        loansDisbursed |-> << Tx(VoucherRef(8), <<"D", "8">>, 80, "silver", <<-6>>),
                              Tx(VoucherRef(9), <<>>, 90, "", <<>>) >>,
        closedLoans |-> <<>>],
       [id |-> <<2, 3>>, date |-> -1,
        loansDisbursed |-> << Tx(VoucherRef(9), <<"d", "9">>, 0, "", <<-2>>) >>,
        closedLoans |-> <<>>] >>

\* find({}).sort({ disbursementDate: -1 }) / sort({ date: -1 }): the documents
\* of the set S, latest first.  key(x) is the sort key (distinct in the pools).
RECURSIVE SortDesc(_, _)
SortDesc(S, byDayBookDate) ==
    IF S = {} THEN <<>>
    ELSE LET k(x) == IF byDayBookDate THEN x.date ELSE x.disbursementDate
             m == CHOOSE x \in S : \A y \in S : k(y) <= k(x)
         IN  <<m>> \o SortDesc(S \ {m}, byDayBookDate)

\* ------------------------------------------------------ the derived loans

\* VoucherLoan with the status rewritten to Overdue once the loan is overdue,
\* as the day-book reader does.
VoucherLoanDerivedStatus(voucher, today) ==
    LET isOverdue == voucher.dueDate < today /\ voucher.status # "Closed"
    IN  [billNo |-> voucher.billNo,
         customerId |-> OrSeq(voucher.customerId, <<"u", "n", "k">>),
         customerName |-> OrSeq(voucher.customerName, <<"U", "n", "k">>),
         customerPhone |-> OrSeq(voucher.customerPhone, <<"N", "/", "A">>),
         jewelType |-> OrStr(voucher.jewelType, "gold"),
         finalLoanAmount |-> OrNum(voucher.finalLoanAmount, 0),
         overallLoanAmount |-> OrNum(voucher.overallLoanAmount, 0),
         disbursementDate |-> voucher.disbursementDate,
         dueDate |-> voucher.dueDate,
         status |-> IF isOverdue THEN "Overdue" ELSE voucher.status,
         loanStatus |-> IF isOverdue THEN "overdue"
                        ELSE IF voucher.status = "Closed" THEN "closed"
                        ELSE IF voucher.status \in {"Active", "Partial"} THEN "active"
                        ELSE "inactive",
         repaidAmount |-> OrNum(voucher.repaidAmount, 0),
         balanceAmount |-> OrNum(voucher.balanceAmount, voucher.overallLoanAmount),
         paymentProgress |-> OrNum(voucher.paymentProgress, 0),
         daysOverdue |-> IF isOverdue
                         THEN CeilDiv(today - voucher.dueDate, DayLen) ELSE 0,
         closedDate |-> voucher.closedDate,
         voucherId |-> voucher.id,
         sourceType |-> "voucher",
         sourceId |-> voucher.id]

\* isOverdue without the test of the status.
IsPastDue(status, dueDate, today) == dueDate < today

\* dueDate < today && !['Closed'].includes(voucher.status)
IsOverdue(status, dueDate, today) == dueDate < today /\ status # "Closed"

\* The loan the voucher reader derives from one voucher at time today.
VoucherLoan(voucher, today) ==
    LET dueDate == voucher.dueDate
        isOverdue == IsOverdue(voucher.status, dueDate, today)
        daysOverdue == IF isOverdue THEN CeilDiv(today - dueDate, DayLen) ELSE 0
    IN  [billNo |-> voucher.billNo,
         customerId |-> OrSeq(voucher.customerId, <<"u", "n", "k">>),
         customerName |-> OrSeq(voucher.customerName, <<"U", "n", "k">>),
         customerPhone |-> OrSeq(voucher.customerPhone, <<"N", "/", "A">>),
         jewelType |-> OrStr(voucher.jewelType, "gold"),
         finalLoanAmount |-> OrNum(voucher.finalLoanAmount, 0),
         overallLoanAmount |-> OrNum(voucher.overallLoanAmount, 0),
         disbursementDate |-> voucher.disbursementDate,
         dueDate |-> voucher.dueDate,
         status |-> voucher.status,
         loanStatus |-> IF isOverdue THEN "overdue"
                        ELSE IF voucher.status = "Closed" THEN "closed"
                        ELSE IF voucher.status \in {"Active", "Partial"} THEN "active"
                        ELSE "inactive",
         repaidAmount |-> OrNum(voucher.repaidAmount, 0),
         balanceAmount |-> OrNum(voucher.balanceAmount, voucher.overallLoanAmount),
         paymentProgress |-> OrNum(voucher.paymentProgress, 0),
         daysOverdue |-> daysOverdue,
         closedDate |-> voucher.closedDate,
         voucherId |-> voucher.id,
         sourceType |-> "voucher",
         sourceId |-> voucher.id]

\* vouchers.map(voucher => ...) over the sorted voucher collection.
VoucherLoans(vs, today) ==
    LET sorted == SortDesc(vs, FALSE)
    IN  [i \in 1..Len(sorted) |-> VoucherLoan(sorted[i], today)]

\* The test on the bill number alone.
QualifiesByBillNo(transaction) == transaction.billNo # <<>>

\* transaction.voucherId && transaction.billNo
Qualifies(transaction) == transaction.voucherId # <<>> /\ transaction.billNo # <<>>

\* The loan pushed for a transaction of dayBook.loansDisbursed.
DisbursedLoan(dayBook, transaction, today) ==
    LET disbursementDate == IF transaction.createdAt # <<>>
                            THEN transaction.createdAt[1] ELSE dayBook.date
        dueDate == disbursementDate + TwelveMonths
        isOverdue == dueDate < today
        daysOverdue == IF isOverdue THEN CeilDiv(today - dueDate, DayLen) ELSE 0
    IN  [billNo |-> transaction.billNo,
         customerId |-> OrSeq(transaction.customerId, <<"u", "n", "k">>),
         customerName |-> OrSeq(transaction.customerName, <<"U", "n", "k">>),
         customerPhone |-> <<"N", "/", "A">>,
         jewelType |-> OrStr(transaction.jewelType, "gold"),
         finalLoanAmount |-> OrNum(transaction.amount, 0),
         overallLoanAmount |-> OrNum(transaction.amount, 0),
         disbursementDate |-> disbursementDate,
         dueDate |-> dueDate,
         status |-> IF isOverdue THEN "Overdue" ELSE "Active",
         loanStatus |-> IF isOverdue THEN "overdue" ELSE "active",
         repaidAmount |-> 0,
         balanceAmount |-> OrNum(transaction.amount, 0),
         paymentProgress |-> 0,
         daysOverdue |-> daysOverdue,
         closedDate |-> <<>>,
         voucherId |-> transaction.voucherId,
         sourceType |-> "daybook",
         sourceId |-> dayBook.id]

\* The loan pushed for a transaction of dayBook.closedLoans.
ClosedLoan(dayBook, transaction) ==
    LET disbursementDate == IF transaction.createdAt # <<>>
                            THEN transaction.createdAt[1] ELSE dayBook.date
        dueDate == disbursementDate + TwelveMonths
    IN  [billNo |-> transaction.billNo,
         customerId |-> OrSeq(transaction.customerId, <<"u", "n", "k">>),
         customerName |-> OrSeq(transaction.customerName, <<"U", "n", "k">>),
         customerPhone |-> <<"N", "/", "A">>,
         jewelType |-> OrStr(transaction.jewelType, "gold"),
         finalLoanAmount |-> OrNum(transaction.amount, 0),
         overallLoanAmount |-> OrNum(transaction.amount, 0),
         disbursementDate |-> disbursementDate,
         dueDate |-> dueDate,
         status |-> "Closed",
         loanStatus |-> "closed",
         repaidAmount |-> OrNum(transaction.amount, 0),
         balanceAmount |-> 0,
         paymentProgress |-> 100,
         daysOverdue |-> 0,
         closedDate |-> <<dayBook.date>>,
         voucherId |-> transaction.voucherId,
         sourceType |-> "daybook",
         sourceId |-> dayBook.id]

\* DayBookLoansOf without the closures: the disbursements only.
DayBookLoansOfDisbursed(dayBook, today) ==
    LET dis == SelectSeq(dayBook.loansDisbursed, Qualifies)
    IN  [i \in 1..Len(dis) |-> DisbursedLoan(dayBook, dis[i], today)]

\* The loans one day-book contributes: its disbursements, then its closures.
DayBookLoansOf(dayBook, today) ==
    LET dis == SelectSeq(dayBook.loansDisbursed, Qualifies)
        clo == SelectSeq(dayBook.closedLoans, Qualifies)
    IN  [i \in 1..Len(dis) |-> DisbursedLoan(dayBook, dis[i], today)]
        \o [i \in 1..Len(clo) |-> ClosedLoan(dayBook, clo[i])]

RECURSIVE ConcatDayBooks(_, _)
ConcatDayBooks(books, today) ==
    IF books = <<>> THEN <<>>
    ELSE DayBookLoansOf(Head(books), today) \o ConcatDayBooks(Tail(books), today)

\* extractLoanDataFromDayBooks returning what it had read despite the fault.
ExtractLoanDataIgnoringFault(dbs, today, fault) ==
    ConcatDayBooks(SortDesc(dbs, TRUE), today)

\* extractLoanDataFromDayBooks: [] when the read faults (the catch).
ExtractLoanDataFromDayBooks(dbs, today, fault) ==
    IF fault THEN <<>> ELSE ConcatDayBooks(SortDesc(dbs, TRUE), today)

\* Whether the day-book reader runs: the voucher reader gave no loan.
DayBooksRead(vs, vFault) == vFault \/ vs = {}

\* BuildLoans with the day-book loans appended to the voucher loans.
BuildLoansMerged(vs, dbs, today, vFault, dFault) ==
    (IF vFault \/ vs = {} THEN <<>> ELSE VoucherLoans(vs, today))
        \o ExtractLoanDataFromDayBooks(dbs, today, dFault)

\* The loans array sync() builds: vouchers when the collection is non-empty
\* and readable, else whatever the day-books give.
BuildLoans(vs, dbs, today, vFault, dFault) ==
    LET fromVouchers == IF vFault \/ vs = {} THEN <<>> ELSE VoucherLoans(vs, today)
    IN  IF Len(fromVouchers) = 0
        THEN ExtractLoanDataFromDayBooks(dbs, today, dFault)
        ELSE fromVouchers

\* The loan the lazy population of getStockSummary derives from one voucher:
\* its object literal has no closedDate (nor lastPaymentDate, monthsPaid,
\* totalInterestPaid), so the loan is stored without one.
VoucherLoanLazy(voucher, today) ==
    [VoucherLoan(voucher, today) EXCEPT !.closedDate = <<>>]

\* vouchers.map(voucher => ...) of the lazy population.
VoucherLoansLazy(vs, today) ==
    LET sorted == SortDesc(vs, FALSE)
    IN  [i \in 1..Len(sorted) |-> VoucherLoanLazy(sorted[i], today)]

\* The loans array the lazy population builds: as BuildLoans, with its own
\* copy of the voucher mapping.
BuildLoansLazy(vs, dbs, today, vFault, dFault) ==
    LET fromVouchers == IF vFault \/ vs = {} THEN <<>> ELSE VoucherLoansLazy(vs, today)
    IN  IF Len(fromVouchers) = 0
        THEN ExtractLoanDataFromDayBooks(dbs, today, dFault)
        ELSE fromVouchers

\* ------------------------------------------------------ the snapshot store

\* NewDoc written in part: its first loan only.
NewDocInPart(docId, loans, today) ==
    [id |-> docId,
     loans |-> [i \in 1..Min(1, Len(loans)) |-> [id |-> LoanId(docId, i)] @@ loans[i]],
     lastSyncedAt |-> today,
     lastUpdated |-> today]

\* A snapshot document as new StockSummary({loans, lastSyncedAt, ...}) makes
\* it: every loan subdocument gets its own _id.
NewDoc(docId, loans, today) ==
    [id |-> docId,
     loans |-> [i \in 1..Len(loans) |-> [id |-> LoanId(docId, i)] @@ loans[i]],
     lastSyncedAt |-> today,
     lastUpdated |-> today]

\* No document: what findOne() returns on an empty collection.
NoDoc ==
    [id |-> -1, loans |-> <<>>, lastSyncedAt |-> 0, lastUpdated |-> 0]

\* findOne().sort({ lastUpdated: -1 }): the documents findOne may return.
\* Documents with equal lastUpdated come in no specified order.
Latest(docs) == {d \in docs : \A e \in docs : e.lastUpdated <= d.lastUpdated}

\* save() never missing its document.
StoredAlways(docs, doc) == TRUE

\* document.save() of a document read from the store: it replaces the stored
\* document with the same _id.
SaveExisting(docs, doc) == {IF d.id = doc.id THEN doc ELSE d : d \in docs}

\* Whether the document save() updates is still in the store.
Stored(docs, doc) == \E d \in docs : d.id = doc.id

\* deleteOne({}) in the place of deleteMany({}).
DeleteOne(docs) == IF docs = {} THEN {} ELSE docs \ {CHOOSE d \in docs : TRUE}

\* deleteMany({}).
DeleteMany(docs) == {}

\* findIndex with a predicate every loan satisfies: the first loan, if any.
FindIndexAny(loans, id) == IF Len(loans) > 0 THEN 1 ELSE 0

\* findLastIndex in the place of findIndex: the last loan that matches.
FindLastIndex(loans, id) ==
    IF \E i \in 1..Len(loans) : loans[i].id = id \/ loans[i].voucherId = id
    THEN CHOOSE i \in 1..Len(loans) :
            /\ loans[i].id = id \/ loans[i].voucherId = id
            /\ \A j \in (i + 1)..Len(loans) :
                    ~(loans[j].id = id \/ loans[j].voucherId = id)
    ELSE 0

\* loans.findIndex(loan => loan._id == id || loan.voucherId == id), 1-based;
\* 0 when no loan matches.
FindIndex(loans, id) ==
    IF \E i \in 1..Len(loans) : loans[i].id = id \/ loans[i].voucherId = id
    THEN CHOOSE i \in 1..Len(loans) :
            /\ loans[i].id = id \/ loans[i].voucherId = id
            /\ \A j \in 1..(i - 1) : ~(loans[j].id = id \/ loans[j].voucherId = id)
    ELSE 0

\* ------------------------------------------------------------- the query

\* Query parameters.  search <<>>, dateFilter <<>>, statusFilter "" and
\* jewelTypeFilter "" stand for an absent parameter.
Params(search, dateFilter, statusFilter, jewelTypeFilter, page, limit) ==
    [search |-> search, dateFilter |-> dateFilter, statusFilter |-> statusFilter,
     jewelTypeFilter |-> jewelTypeFilter, page |-> page, limit |-> limit]

\* The search predicate on one loan.
SearchMatch(loan, search) ==
    LET searchLower == ToLowerCase(search)
    IN  \/ loan.billNo # <<>> /\ Includes(ToLowerCase(loan.billNo), searchLower)
        \/ loan.customerName # <<>>
           /\ Includes(ToLowerCase(loan.customerName), searchLower)
        \/ loan.customerId # <<>>
           /\ Includes(ToLowerCase(loan.customerId), searchLower)
        \/ loan.customerPhone # <<>> /\ Includes(loan.customerPhone, search)

\* ApplyFilters without the tests for 'all': 'all' is matched like any value.
ApplyFiltersAllIsValue(loans, q) ==
    LET bySearch(l) == SearchMatch(l, q.search)
        f1 == IF q.search # <<>> THEN SelectSeq(loans, bySearch) ELSE loans
        filterDate == IF q.dateFilter # <<>> THEN q.dateFilter[1] ELSE 0
        byDate(l) == l.disbursementDate >= filterDate
                     /\ l.disbursementDate < filterDate + DayLen
        f2 == IF q.dateFilter # <<>> THEN SelectSeq(f1, byDate) ELSE f1
        byStatus(l) == l.loanStatus = q.statusFilter
        f3 == IF q.statusFilter # "" THEN SelectSeq(f2, byStatus) ELSE f2
        byJewel(l) == l.jewelType = q.jewelTypeFilter
    IN  IF q.jewelTypeFilter # "" THEN SelectSeq(f3, byJewel) ELSE f3

\* The filters applied one after the other, as the code applies them.
ApplyFilters(loans, q) ==
    LET bySearch(l) == SearchMatch(l, q.search)
        f1 == IF q.search # <<>> THEN SelectSeq(loans, bySearch) ELSE loans
        filterDate == IF q.dateFilter # <<>> THEN q.dateFilter[1] ELSE 0
        nextDay == filterDate + DayLen
        byDate(l) == l.disbursementDate >= filterDate /\ l.disbursementDate < nextDay
        f2 == IF q.dateFilter # <<>> THEN SelectSeq(f1, byDate) ELSE f1
        isActive(l) == l.loanStatus = "active"
        isOverdue(l) == l.loanStatus = "overdue"
        isClosed(l) == l.loanStatus = "closed"
        f3 == IF q.statusFilter # "" /\ q.statusFilter # "all"
              THEN IF q.statusFilter = "active" THEN SelectSeq(f2, isActive)
                   ELSE IF q.statusFilter = "overdue" THEN SelectSeq(f2, isOverdue)
                   ELSE IF q.statusFilter = "closed" THEN SelectSeq(f2, isClosed)
                   ELSE f2
              ELSE f2
        byJewel(l) == l.jewelType = q.jewelTypeFilter
        f4 == IF q.jewelTypeFilter # "" /\ q.jewelTypeFilter # "all"
              THEN SelectSeq(f3, byJewel) ELSE f3
    IN  f4

\* The page taken at offset page * limit.
PaginateFromZero(filteredLoans, page, limit) ==
    LET startIndex == page * limit
    IN  Slice(filteredLoans, startIndex, startIndex + limit)

\* filteredLoans.slice(startIndex, startIndex + parseInt(limit)).
Paginate(filteredLoans, page, limit) ==
    LET startIndex == (page - 1) * limit
    IN  Slice(filteredLoans, startIndex, startIndex + limit)

RECURSIVE SumFinal(_)
SumFinal(loans) ==
    IF loans = <<>> THEN 0
    ELSE OrNum(Head(loans).finalLoanAmount, 0) + SumFinal(Tail(loans))

\* Math.round((part / whole) * 100) for whole > 0.
RoundPercent(part, whole) == (200 * part + whole) \div (2 * whole)

\* Math.ceil(totalCount / limit); <<>> when the quotient is no number
\* (limit = 0), which JSON renders as null.
TotalPages(totalCount, limit) ==
    IF limit > 0 THEN <<CeilDiv(totalCount, limit)>>
    ELSE IF limit < 0 THEN <<-(totalCount \div (-limit))>>
    ELSE <<>>

\* filteredStats.
FilteredStats(filteredLoans) ==
    LET isActive(l) == l.loanStatus = "active"
        isOverdue(l) == l.loanStatus = "overdue"
        isClosed(l) == l.loanStatus = "closed"
    IN  [totalLoans |-> Len(filteredLoans),
         activeLoans |-> Len(SelectSeq(filteredLoans, isActive)),
         overdueLoans |-> Len(SelectSeq(filteredLoans, isOverdue)),
         closedLoans |-> Len(SelectSeq(filteredLoans, isClosed)),
         totalActiveLoanAmount |-> SumFinal(SelectSeq(filteredLoans, isActive)),
         totalOverdueLoanAmount |-> SumFinal(SelectSeq(filteredLoans, isOverdue)),
         totalLoanAmount |-> SumFinal(filteredLoans),
         overdueRate |-> IF Len(filteredLoans) > 0
                         THEN RoundPercent(Len(SelectSeq(filteredLoans, isOverdue)),
                                           Len(filteredLoans))
                         ELSE 0]

\* JewelTypeSummary counting the active, overdue and closed loans only.
JewelTypeSummaryClassified(filteredLoans) ==
    LET typeOf(l) == OrStr(l.jewelType, "gold")
        types == {typeOf(filteredLoans[i]) : i \in 1..Len(filteredLoans)}
    IN  [t \in types |->
            LET ofType(l) == typeOf(l) = t
                ls == SelectSeq(filteredLoans, ofType)
                isActive(l) == l.loanStatus = "active"
                isOverdue(l) == l.loanStatus = "overdue"
                isClosed(l) == l.loanStatus = "closed"
                classified(l) == isActive(l) \/ isOverdue(l) \/ isClosed(l)
            IN  [active |-> Len(SelectSeq(ls, isActive)),
                 overdue |-> Len(SelectSeq(ls, isOverdue)),
                 closed |-> Len(SelectSeq(ls, isClosed)),
                 totalAmount |-> SumFinal(ls),
                 count |-> Len(SelectSeq(ls, classified))]]

\* The per-jewel-type breakdown of the filtered loans.
JewelTypeSummary(filteredLoans) ==
    LET typeOf(l) == OrStr(l.jewelType, "gold")
        types == {typeOf(filteredLoans[i]) : i \in 1..Len(filteredLoans)}
    IN  [t \in types |->
            LET ofType(l) == typeOf(l) = t
                ls == SelectSeq(filteredLoans, ofType)
                isActive(l) == l.loanStatus = "active"
                isOverdue(l) == l.loanStatus = "overdue"
                isClosed(l) == l.loanStatus = "closed"
            IN  [active |-> Len(SelectSeq(ls, isActive)),
                 overdue |-> Len(SelectSeq(ls, isOverdue)),
                 closed |-> Len(SelectSeq(ls, isClosed)),
                 totalAmount |-> SumFinal(ls),
                 count |-> Len(ls)]]

\* formattedLoans: the projection of a loan the response carries.
FormatLoan(loan) ==
    [id |-> loan.id, billNo |-> loan.billNo, customerId |-> loan.customerId,
     customerName |-> loan.customerName, customerPhone |-> loan.customerPhone,
     jewelType |-> loan.jewelType, finalLoanAmount |-> loan.finalLoanAmount,
     overallLoanAmount |-> loan.overallLoanAmount,
     disbursementDate |-> loan.disbursementDate, dueDate |-> loan.dueDate,
     status |-> loan.status, loanStatus |-> loan.loanStatus,
     repaidAmount |-> loan.repaidAmount, balanceAmount |-> loan.balanceAmount,
     paymentProgress |-> loan.paymentProgress, daysOverdue |-> loan.daysOverdue]

\* A response.  Every response has the same fields; a handler fills its own.
\* For the properties only, a response also records what the handler worked
\* on: snapshot (the loans a query answered from, the loans a sync built),
\* params, id and status (its inputs), at (its clock reading), vFault and
\* dFault (whether a source read faulted), lazy (whether a query populated
\* the store), solo (the sync ran with no other handler stepping) and elapsed
\* (the time since the request answered just before, when that was the same
\* operation and succeeded; -1 otherwise).  error is the error.message a 500
\* response of a failed save() carries.
NoResp ==
    [op |-> "none", code |-> 0, by |-> 0, data |-> <<>>, totalItems |-> 0,
     totalPages |-> <<>>, currentPage |-> 0, itemsPerPage |-> 0,
     summary |-> FilteredStats(<<>>), jewelTypeSummary |-> <<>>,
     dataSource |-> "", modifiedCount |-> 0, deletedCount |-> 0,
     snapshot |-> <<>>,
     params |-> Params(<<>>, <<>>, "", "", 0, 0), id |-> <<>>, status |-> "",
     at |-> 0, vFault |-> FALSE, dFault |-> FALSE, lazy |-> "no",
     solo |-> FALSE, elapsed |-> -1, error |-> ""]

\* error.message of a save(): the document to update is gone from the store,
\* or the store failed otherwise.
SaveErrors(docs, doc) ==
    IF Stored(docs, doc) THEN {"store fault"}
    ELSE {"store fault", "document not found"}

Respond(op, code) == [NoResp EXCEPT !.op = op, !.code = code]

\* The success response of getStockSummary from snapshot document doc.
QueryResponse(doc, q, lazy) ==
    LET filteredLoans == ApplyFilters(doc.loans, q)
        totalCount == Len(filteredLoans)
    IN  [NoResp EXCEPT
            !.op = "query", !.code = 200,
            !.data = LET page == Paginate(filteredLoans, q.page, q.limit)
                     IN  [i \in 1..Len(page) |-> FormatLoan(page[i])],
            !.totalItems = totalCount,
            !.totalPages = TotalPages(totalCount, q.limit),
            !.currentPage = q.page,
            !.itemsPerPage = q.limit,
            !.summary = FilteredStats(filteredLoans),
            !.jewelTypeSummary = JewelTypeSummary(filteredLoans),
            !.dataSource = "stocksummary",
            !.snapshot = doc.loans, !.params = q, !.lazy = lazy]

\* The failed lazy population answered with the error instead.
ErrorResponse(q) ==
    [NoResp EXCEPT !.op = "query", !.code = 500, !.params = q, !.lazy = "failed"]

\* The response of getStockSummary when the lazy population cannot be saved.
EmptyResponse(q) ==
    [NoResp EXCEPT
        !.op = "query", !.code = 200, !.data = <<>>, !.totalItems = 0,
        !.totalPages = <<0>>, !.currentPage = 1, !.itemsPerPage = q.limit,
        !.dataSource = "empty", !.params = q, !.lazy = "failed"]

\* ------------------------------------------------- status maintenance

\* IsDue without the test of loanStatus: closed loans are swept too.
IsDueAnyStatus(loan, today) == loan.dueDate < today /\ loan.loanStatus # "overdue"

\* IsDue with overdue loans swept again.
IsDueOrOverdue(loan, today) ==
    loan.loanStatus \in {"active", "overdue"} /\ loan.dueDate < today

\* The condition of the forEach of updateOverdueStatus.
IsDue(loan, today) == loan.loanStatus = "active" /\ loan.dueDate < today

\* SweepLoan leaving daysOverdue as it was.
SweepLoanKeepDays(loan, today) ==
    IF IsDue(loan, today)
    THEN [loan EXCEPT !.status = "Overdue", !.loanStatus = "overdue"]
    ELSE loan

\* The body of the forEach of updateOverdueStatus on one loan.
SweepLoan(loan, today) ==
    IF IsDue(loan, today)
    THEN [loan EXCEPT !.status = "Overdue", !.loanStatus = "overdue",
                      !.daysOverdue = CeilDiv(today - loan.dueDate, DayLen)]
    ELSE loan

\* SweepLoans counting every loan it visited.
SweepLoansCountAll(loans, today) ==
    [loans |-> [i \in 1..Len(loans) |-> SweepLoan(loans[i], today)],
     modifiedCount |-> Len(loans)]

\* The loans after the sweep and the number of loans it modified.
SweepLoans(loans, today) ==
    LET due == {i \in 1..Len(loans) : IsDue(loans[i], today)}
    IN  [loans |-> [i \in 1..Len(loans) |-> SweepLoan(loans[i], today)],
         modifiedCount |-> Cardinality(due)]

\* SetLoanStatus assigning status alone.
SetLoanStatusOnly(loan, status, today) == [loan EXCEPT !.status = status]

\* SetLoanStatus without the settlement of a closed loan.
SetLoanStatusNoSettle(loan, status, today) ==
    [loan EXCEPT !.status = status,
                 !.loanStatus = IF status = "Closed" THEN "closed"
                                ELSE IF status = "Overdue" THEN "overdue"
                                ELSE "active",
                 !.closedDate = IF status = "Closed" THEN <<today>> ELSE @]

\* SetLoanStatus with the classification of the voucher reader: a status
\* other than Closed, Active and Partial gives 'inactive'.
SetLoanStatusClassified(loan, status, today) ==
    LET l1 == [loan EXCEPT !.status = status,
                           !.loanStatus = IF status = "Closed" THEN "closed"
                                          ELSE IF status \in {"Active", "Partial"}
                                          THEN "active"
                                          ELSE "inactive"]
    IN  IF status = "Closed"
        THEN [l1 EXCEPT !.closedDate = <<today>>,
                        !.repaidAmount = l1.overallLoanAmount,
                        !.balanceAmount = 0,
                        !.paymentProgress = 100]
        ELSE l1

\* SetLoanStatus reopening the loan: a status other than Closed clears
\* closedDate and restores the balance.
SetLoanStatusReopen(loan, status, today) ==
    LET l1 == [loan EXCEPT !.status = status,
                           !.loanStatus = IF status = "Closed" THEN "closed"
                                          ELSE IF status = "Overdue" THEN "overdue"
                                          ELSE "active"]
    IN  IF status = "Closed"
        THEN [l1 EXCEPT !.closedDate = <<today>>,
                        !.repaidAmount = l1.overallLoanAmount,
                        !.balanceAmount = 0,
                        !.paymentProgress = 100]
        ELSE [l1 EXCEPT !.closedDate = <<>>,
                        !.repaidAmount = 0,
                        !.balanceAmount = l1.overallLoanAmount,
                        !.paymentProgress = 0]

\* The assignments of updateVoucherStatus to the loan it found.
SetLoanStatus(loan, status, today) ==
    LET l1 == [loan EXCEPT !.status = status,
                           !.loanStatus = IF status = "Closed" THEN "closed"
                                          ELSE IF status = "Overdue" THEN "overdue"
                                          ELSE "active"]
    IN  IF status = "Closed"
        THEN [l1 EXCEPT !.closedDate = <<today>>,
                        !.repaidAmount = l1.overallLoanAmount,
                        !.balanceAmount = 0,
                        !.paymentProgress = 100]
        ELSE l1

\* ---------------------------------------------------------------- state

VARIABLES
    vouchers,   \* the voucher collection (a set of voucher documents)
    dayBooks,   \* the day-book collection (a set of day-book documents)
    store,      \* the snapshot collection (a set of snapshot documents)
    now,        \* the clock, in ticks
    nextDoc,    \* the _id the next snapshot document gets
    procs,      \* the request handlers that may run
    pc,         \* where each handler is: idle, or at one of its awaits
    loc,        \* each handler's local variables
    rsp,        \* the response sent last
    solo        \* history: no other handler has stepped since p's sync began

vars == <<vouchers, dayBooks, store, now, nextDoc, procs, pc, loc, rsp, solo>>

\* The local variables of a handler that is not running.  prev and elapsed
\* are history: the response of the sync() answered just before this one, and
\* the time since the same operation was answered just before.
NoLocals ==
    [doc |-> NoDoc, loans |-> <<>>, q |-> Params(<<>>, <<>>, "", "", 0, 0),
     idx |-> 0, modifiedCount |-> 0, vFault |-> FALSE, dFault |-> FALSE,
     docId |-> -1, at |-> 0, prev |-> NoResp, elapsed |-> -1]

\* The collections a behaviour may start with: the first k documents of a pool.
Prefix(pool, k) == {pool[i] : i \in 1..Min(k, Len(pool))}

InitWith(ps, firstDoc, vchoices, dchoices) ==
    /\ vouchers \in vchoices
    /\ dayBooks \in dchoices
    /\ store = {}
    /\ now = 0
    /\ nextDoc = firstDoc
    /\ procs = ps
    /\ pc = [p \in Procs |-> "idle"]
    /\ loc = [p \in Procs |-> NoLocals]
    /\ rsp = NoResp
    /\ solo = [p \in Procs |-> FALSE]

\* One handler at a time: requests are served one after the other, with room
\* for two snapshots to be inserted.
Init ==
    InitWith({1}, MaxDocs - 1,
             {Prefix(VoucherPool, k) : k \in {0, MaxVouchers}},
             {Prefix(DayBookPool, MaxDayBooks)})

\* Two handlers: requests overlap.
InitConc ==
    InitWith(Procs, 0,
             {Prefix(VoucherPool, k) : k \in {0, MaxVouchers}},
             {Prefix(DayBookPool, 1)})

\* A handler sends its response and ends.
Finish(p, response) ==
    /\ pc' = [pc EXCEPT ![p] = "idle"]
    /\ rsp' = [response EXCEPT !.by = p]
    /\ loc' = [loc EXCEPT ![p] = NoLocals]

\* A handler reaches an await.  The response sent last is history once a
\* request is under way.
Goto(p, label, locals) ==
    /\ pc' = [pc EXCEPT ![p] = label]
    /\ loc' = [loc EXCEPT ![p] = locals]
    /\ rsp' = NoResp

\* The time from the response sent last to clock reading t, when that response
\* is a success of operation op; -1 otherwise.
Elapsed(op, t) == IF rsp.op = op /\ rsp.code = 200 THEN t - rsp.at ELSE -1

\* What every step of handler p leaves alone.  solo[p] holds from the start
\* of p's sync() for as long as no other handler steps.
Frame(p) ==
    /\ solo' = [r \in Procs |->
                   IF r = p
                   THEN pc'[p] = "syncDelete" \/ (solo[p] /\ pc'[p] # "idle")
                   ELSE FALSE]
    /\ UNCHANGED <<vouchers, dayBooks, now, procs>>

\* ----------------------------------------------------------------- sync

\* createOrUpdateStockSummary up to its deleteMany: both readers have run.
SyncStart(p) ==
    /\ pc[p] = "idle"
    /\ nextDoc <= MaxDocs
    /\ \E vFault \in BOOLEAN, dFault \in BOOLEAN :
        LET loans == BuildLoans(vouchers, dayBooks, now, vFault, dFault)
        IN  Goto(p, "syncDelete",
                 [NoLocals EXCEPT !.loans = loans, !.vFault = vFault,
                                  !.dFault = dFault /\ DayBooksRead(vouchers, vFault),
                                  !.docId = nextDoc, !.at = now,
                                  !.prev = IF rsp.op = "sync" /\ rsp.code = 200
                                           THEN rsp ELSE NoResp,
                                  !.elapsed = Elapsed("sync", now)])
    /\ nextDoc' = nextDoc + 1
    /\ UNCHANGED store
    /\ Frame(p)

\* await StockSummary.deleteMany({}); a store fault ends the request with 500.
SyncDelete(p) ==
    /\ pc[p] = "syncDelete"
    /\ \/ /\ store' = DeleteMany(store)
          /\ Goto(p, "syncSave",
                  [loc[p] EXCEPT !.modifiedCount = Cardinality(store \ DeleteMany(store))])
       \/ /\ store' = store
          /\ Finish(p, Respond("sync", 500))
    /\ UNCHANGED nextDoc
    /\ Frame(p)

\* new StockSummary(...) and await stockSummary.save().
SyncSave(p) ==
    /\ pc[p] = "syncSave"
    /\ LET l == loc[p]
           doc == NewDoc(l.docId, l.loans, now)
       IN  \/ /\ store' = store \cup {doc}
              /\ Finish(p, [Respond("sync", 200) EXCEPT
                               !.totalItems = Len(l.loans),
                               !.dataSource = IF Len(l.loans) > 0
                                              THEN l.loans[1].sourceType
                                              ELSE "unknown",
                               !.snapshot = doc.loans, !.at = l.at,
                               !.vFault = l.vFault, !.dFault = l.dFault,
                               !.deletedCount = l.modifiedCount,
                               !.solo = solo[p], !.elapsed = l.elapsed])
           \/ /\ store' = store
              /\ Finish(p, Respond("sync", 500))
    /\ UNCHANGED nextDoc
    /\ Frame(p)

\* ---------------------------------------------------------------- query

\* The parameters of the queries of the concurrent model.
SmallQueries ==
    {Params(<<>>, <<>>, "", "", 1, DefaultLimit),
     Params(<<>>, <<>>, "active", "", 1, 1)}

\* getStockSummary up to its first await: findOne().sort({lastUpdated: -1}),
\* and the whole answer when a snapshot exists.
QueryFind(p, q) ==
    /\ pc[p] = "idle"
    /\ IF store = {}
       THEN /\ nextDoc <= MaxDocs
            /\ nextDoc' = nextDoc + 1
            /\ Goto(p, "queryPopulate", [NoLocals EXCEPT !.q = q, !.docId = nextDoc])
       ELSE /\ \E d \in Latest(store) : Finish(p, QueryResponse(d, q, "no"))
            /\ UNCHANGED nextDoc
    /\ UNCHANGED store
    /\ Frame(p)

\* The lazy population: both readers, new StockSummary(...) and save(); a
\* save that throws gives the empty response instead of an error.
QueryPopulate(p) ==
    /\ pc[p] = "queryPopulate"
    /\ \E vFault \in BOOLEAN, dFault \in BOOLEAN :
        LET loans == BuildLoansLazy(vouchers, dayBooks, now, vFault, dFault)
            doc == NewDoc(loc[p].docId, loans, now)
            ghost(r) == [r EXCEPT !.at = now, !.vFault = vFault,
                                  !.dFault = dFault /\ DayBooksRead(vouchers, vFault)]
        IN  \/ /\ store' = store \cup {doc}
               /\ Finish(p, ghost(QueryResponse(doc, loc[p].q, "saved")))
            \/ /\ store' = store
               /\ Finish(p, ghost(EmptyResponse(loc[p].q)))
    /\ UNCHANGED nextDoc
    /\ Frame(p)

\* ---------------------------------------------------------------- sweep

\* updateOverdueStatus up to its save(): findOne, the forEach, and the whole
\* answer when there is no snapshot or nothing was modified.
SweepFind(p) ==
    /\ pc[p] = "idle"
    /\ IF store = {}
       THEN Finish(p, Respond("sweep", 404))
       ELSE \E d \in Latest(store) :
                LET r == SweepLoans(d.loans, now)
                IN  IF r.modifiedCount > 0
                    THEN Goto(p, "sweepSave",
                              [NoLocals EXCEPT
                                  !.doc = [d EXCEPT !.loans = r.loans,
                                                    !.lastUpdated = now],
                                  !.loans = d.loans,
                                  !.modifiedCount = r.modifiedCount, !.at = now,
                                  !.elapsed = Elapsed("sweep", now)])
                    ELSE Finish(p, [Respond("sweep", 200) EXCEPT
                                       !.modifiedCount = r.modifiedCount,
                                       !.at = now,
                                       !.elapsed = Elapsed("sweep", now)])
    /\ UNCHANGED <<store, nextDoc>>
    /\ Frame(p)

\* await stockSummary.save() of updateOverdueStatus.
SweepSave(p) ==
    /\ pc[p] = "sweepSave"
    /\ \/ /\ Stored(store, loc[p].doc)
          /\ store' = SaveExisting(store, loc[p].doc)
          /\ Finish(p, [Respond("sweep", 200) EXCEPT
                           !.modifiedCount = loc[p].modifiedCount,
                           !.at = loc[p].at,
                           !.elapsed = loc[p].elapsed])
       \/ /\ store' = store
          /\ \E e \in SaveErrors(store, loc[p].doc) :
                Finish(p, [Respond("sweep", 500) EXCEPT !.error = e])
    /\ UNCHANGED nextDoc
    /\ Frame(p)

\* ------------------------------------------------------------ setStatus

\* The loan ids requests name: voucher references and loan _ids, present or not.
LookupIds ==
    {VoucherRef(1), VoucherRef(6), VoucherRef(99), LoanId(MaxDocs - 1, 1)}

\* The status values requests carry.
StatusInputs == Statuses \cup {"Pending"}

\* The validation with every status accepted.
AnyStatusValid(status) == TRUE

\* The validation of the status of updateVoucherStatus.
ValidStatus(status) == status \in Statuses

\* updateVoucherStatus up to its save().
SetStatusFind(p, id, status) ==
    /\ pc[p] = "idle"
    /\ IF ~ValidStatus(status)
       THEN Finish(p, [Respond("setStatus", 400) EXCEPT !.status = status])
       ELSE IF store = {}
       THEN Finish(p, Respond("setStatus", 404))
       ELSE \E d \in Latest(store) :
                LET loanIndex == FindIndex(d.loans, id)
                IN  IF loanIndex = 0
                    THEN Finish(p, Respond("setStatus", 404))
                    ELSE Goto(p, "setStatusSave",
                              [NoLocals EXCEPT
                                  !.doc = [d EXCEPT
                                      !.loans[loanIndex] =
                                          SetLoanStatus(d.loans[loanIndex], status, now),
                                      !.lastUpdated = now],
                                  !.loans = d.loans, !.q = [NoLocals.q EXCEPT
                                      !.search = id, !.statusFilter = status],
                                  !.idx = loanIndex, !.at = now])
    /\ UNCHANGED <<store, nextDoc>>
    /\ Frame(p)

\* await stockSummary.save() of updateVoucherStatus.
SetStatusSave(p) ==
    /\ pc[p] = "setStatusSave"
    /\ \/ /\ Stored(store, loc[p].doc)
          /\ store' = SaveExisting(store, loc[p].doc)
          /\ Finish(p, [Respond("setStatus", 200) EXCEPT
                           !.data = <<loc[p].doc.loans[loc[p].idx]>>,
                           !.id = loc[p].q.search,
                           !.status = loc[p].q.statusFilter,
                           !.at = loc[p].at])
       \/ /\ store' = store
          /\ \E e \in SaveErrors(store, loc[p].doc) :
                Finish(p, [Respond("setStatus", 500) EXCEPT !.error = e])
    /\ UNCHANGED nextDoc
    /\ Frame(p)

\* ------------------------------------------------- the read-only requests

\* getVoucherById.
GetById(p, id) ==
    /\ pc[p] = "idle"
    /\ IF store = {}
       THEN Finish(p, Respond("getById", 404))
       ELSE \E d \in Latest(store) :
                LET i == FindIndex(d.loans, id)
                IN  IF i = 0
                    THEN Finish(p, Respond("getById", 404))
                    ELSE Finish(p, [Respond("getById", 200) EXCEPT
                                       !.data = <<d.loans[i]>>])
    /\ UNCHANGED <<store, nextDoc>>
    /\ Frame(p)

\* getDashboardStats populating an empty store as getStockSummary does.
DashboardAutoSync(p) ==
    /\ pc[p] = "idle"
    /\ LET doc == NewDoc(nextDoc,
                         BuildLoans(vouchers, dayBooks, now, FALSE, FALSE), now)
           docs == IF store = {} THEN {doc} ELSE store
       IN  /\ store' = docs
           /\ \E d \in Latest(docs) :
                Finish(p, [Respond("dashboard", 200) EXCEPT
                              !.totalItems = Len(d.loans),
                              !.summary = FilteredStats(d.loans)])
    /\ UNCHANGED nextDoc
    /\ Frame(p)

\* getDashboardStats.
Dashboard(p) ==
    /\ pc[p] = "idle"
    /\ IF store = {}
       THEN Finish(p, Respond("dashboard", 404))
       ELSE \E d \in Latest(store) :
                Finish(p, [Respond("dashboard", 200) EXCEPT
                              !.totalItems = Len(d.loans),
                              !.summary = FilteredStats(d.loans)])
    /\ UNCHANGED <<store, nextDoc>>
    /\ Frame(p)

\* deleteStockSummary.
Reset(p) ==
    /\ pc[p] = "idle"
    /\ store' = DeleteMany(store)
    /\ Finish(p, [Respond("reset", 200) EXCEPT !.deletedCount = Cardinality(store)])
    /\ UNCHANGED nextDoc
    /\ Frame(p)

\* Time passes.
Tick ==
    /\ now < MaxTime
    /\ now' = now + 1
    /\ UNCHANGED <<vouchers, dayBooks, store, nextDoc, procs, pc, loc, rsp, solo>>

Next ==
    \/ Tick
    \/ \E p \in procs : SyncStart(p)
    \/ \E p \in procs : SyncDelete(p)
    \/ \E p \in procs : SyncSave(p)
    \/ \E p \in procs, q \in SmallQueries : QueryFind(p, q)
    \/ \E p \in procs : QueryPopulate(p)
    \/ \E p \in procs : SweepFind(p)
    \/ \E p \in procs : SweepSave(p)
    \/ \E p \in procs, id \in LookupIds \ {VoucherRef(99)}, status \in Statuses :
            SetStatusFind(p, id, status)
    \/ \E p \in procs : SetStatusSave(p)
    \/ \E p \in procs : Reset(p)

Spec == Init /\ [][Next]_vars

\* The read model: the requests that read the store or look a loan up in it,
\* after the requests that fill and empty it.
NextRead ==
    \/ \E p \in procs : SyncStart(p)
    \/ \E p \in procs : SyncDelete(p)
    \/ \E p \in procs : SyncSave(p)
    \/ \E p \in procs, id \in LookupIds, status \in StatusInputs :
            SetStatusFind(p, id, status)
    \/ \E p \in procs : SetStatusSave(p)
    \/ \E p \in procs, id \in LookupIds : GetById(p, id)
    \/ \E p \in procs : Dashboard(p)
    \/ \E p \in procs : Reset(p)

SpecRead == Init /\ [][NextRead]_vars

\* The concurrent model: the requests that write the store, and the query
\* that populates it.
NextConc ==
    \/ \E p \in procs : SyncStart(p)
    \/ \E p \in procs : SyncDelete(p)
    \/ \E p \in procs : SyncSave(p)
    \/ \E p \in procs : QueryFind(p, Params(<<>>, <<>>, "", "", 1, DefaultLimit))
    \/ \E p \in procs : QueryPopulate(p)
    \/ \E p \in procs : SetStatusFind(p, VoucherRef(1), "Closed")
    \/ \E p \in procs : SetStatusSave(p)
    \/ \E p \in procs : Reset(p)

SpecConc == InitConc /\ [][NextConc]_vars

\* The query model: a snapshot of the whole voucher pool (or of the day-books)
\* and queries over every combination of the parameters.
InitQuery ==
    InitWith({1}, 1,
             {Prefix(VoucherPool, k) : k \in {0, MaxQueryVouchers}},
             {Prefix(DayBookPool, MaxDayBooks)})

QuerySearches == {<<>>, <<"A">>}

QueryDates == {<<>>, <<-2>>}

QueryStatuses == {"", "all", "active", "overdue", "closed", "inactive"}

QueryJewelTypes == {"", "all", "gold"}

QueryPages == 0..MaxPage

QueryLimits == (-1)..MaxLimit

\* Every combination of the filters on the first page, and every page and
\* limit under some of the filters.
RichQueries ==
    {Params(s, d, st, j, 1, DefaultLimit) :
        s \in QuerySearches, d \in QueryDates, st \in QueryStatuses,
        j \in QueryJewelTypes}
    \cup
    {Params(<<>>, <<>>, st, j, pg, lim) :
        st \in {""}, j \in {"", "gold"},
        pg \in QueryPages, lim \in QueryLimits}

NextQuery ==
    \/ \E p \in procs : SyncStart(p)
    \/ \E p \in procs : SyncDelete(p)
    \/ \E p \in procs : SyncSave(p)
    \/ \E p \in procs, q \in RichQueries : QueryFind(p, q)
    \/ \E p \in procs : QueryPopulate(p)

SpecQuery == InitQuery /\ [][NextQuery]_vars

\* ------------------------------------------------------------ properties

\* A loan without the _id the snapshot document gave it.
StripId(loan) == [f \in DOMAIN loan \ {"id"} |-> loan[f]]

StripIds(loans) == [i \in 1..Len(loans) |-> StripId(loans[i])]

\* All loans of the array have source type t.
AllOfType(loans, t) == \A i \in 1..Len(loans) : loans[i].sourceType = t

\* The loans of the array have one source type.
OneSourceType(loans) ==
    \A i, j \in 1..Len(loans) : loans[i].sourceType = loans[j].sourceType

\* The response sent last is the success of a sync().
SyncDone == rsp.op = "sync" /\ rsp.code = 200

\* Handler p completes a sync() successfully in this step.
SyncCompletes(p) == pc[p] = "syncSave" /\ pc'[p] = "idle" /\ rsp'.code = 200

\* C1 as stated: after sync() every loan of the new snapshot is a voucher loan
\* if the voucher collection is non-empty and a day-book loan only if it is
\* empty, and no snapshot holds loans of both source types.
C1_SourceByEmptiness ==
    /\ SyncDone =>
        /\ vouchers # {} => AllOfType(rsp.snapshot, "voucher")
        /\ vouchers = {} => AllOfType(rsp.snapshot, "daybook")
    /\ \A d \in store : OneSourceType(d.loans)

\* C1 amended: after sync() every loan of the new snapshot is a voucher loan
\* (one per voucher) if the voucher collection is non-empty and was read
\* without fault, and a day-book loan if the collection is empty or its read
\* faulted; no snapshot in the store holds loans of both source types.
C1_SourceByReadableVouchers ==
    /\ SyncDone =>
        /\ vouchers # {} /\ ~rsp.vFault =>
            /\ AllOfType(rsp.snapshot, "voucher")
            /\ Len(rsp.snapshot) = Cardinality(vouchers)
        /\ vouchers = {} \/ rsp.vFault => AllOfType(rsp.snapshot, "daybook")
    /\ \A d \in store : OneSourceType(d.loans)

\* C1 witness: both collections hold documents, the sync read the vouchers and
\* its snapshot, all voucher loans, is the stored one.
C1_Witness ==
    /\ SyncDone /\ ~rsp.vFault
    /\ vouchers # {} /\ dayBooks # {}
    /\ Len(rsp.snapshot) > 0 /\ AllOfType(rsp.snapshot, "voucher")
    /\ \E d \in store : d.loans = rsp.snapshot

\* C2: a sync() that completes with no other handler stepping meanwhile leaves
\* exactly one snapshot document, the one it built from the sources, whatever
\* the number of documents before.
C2_SoloSyncLeavesItsSnapshot ==
    [][\A p \in Procs :
        SyncCompletes(p) /\ solo[p] =>
            /\ Cardinality(store') = 1
            /\ \A d \in store' :
                /\ d.id = loc[p].docId
                /\ d.loans = rsp'.snapshot
                /\ StripIds(d.loans) =
                        BuildLoans(vouchers, dayBooks, loc[p].at,
                                   loc[p].vFault, loc[p].dFault)]_vars

\* C2 witness: a sync that ran alone has replaced two snapshot documents by its
\* own.
C2_Witness ==
    /\ SyncDone /\ rsp.solo /\ rsp.deletedCount >= 2
    /\ Cardinality(store) = 1
    /\ \A d \in store : d.loans = rsp.snapshot /\ Len(d.loans) > 0

\* C3: the store holds at most one snapshot document at any time.
C3_AtMostOneSnapshot == Cardinality(store) <= 1

\* The projection (billNo, financial fields) of a loan.
Financial(loan) ==
    <<loan.billNo, loan.finalLoanAmount, loan.overallLoanAmount,
      loan.repaidAmount, loan.balanceAmount, loan.paymentProgress>>

\* The projection (billNo, financial fields, status) of a loans array.
Projection(loans) ==
    [i \in 1..Len(loans) |-> <<Financial(loans[i]), loans[i].status>>]

\* Handler p completes a sync() that began right after the success of
\* another sync(); the sources never change.
SecondSyncCompletes(p) == SyncCompletes(p) /\ loc[p].prev.op = "sync"

\* C4 as stated: two consecutive sync() calls on unchanged sources give loans
\* arrays equal under (billNo, financial fields, status), whatever the time
\* between the calls.
C4_IdempotentWhateverTheTime ==
    [][\A p \in Procs :
        SecondSyncCompletes(p) =>
            Projection(rsp'.snapshot) = Projection(loc[p].prev.snapshot)]_vars

\* C4 amended: two consecutive sync() calls on unchanged sources that meet the
\* same read faults (in particular none) give loans arrays of the same length,
\* equal element by element under (billNo, financial fields); status is equal
\* too, except for a day-book disbursement whose due date passes between the
\* two calls, which is Active in the first snapshot and Overdue in the second.
C4_IdempotentUpToDueDayBookLoans ==
    [][\A p \in Procs :
        /\ SecondSyncCompletes(p)
        /\ loc[p].prev.vFault = rsp'.vFault
        /\ loc[p].prev.dFault = rsp'.dFault
        => LET a == loc[p].prev.snapshot
               b == rsp'.snapshot
           IN  /\ Len(a) = Len(b)
               /\ \A i \in 1..Len(a) :
                    /\ Financial(a[i]) = Financial(b[i])
                    /\ a[i].status # b[i].status =>
                        /\ a[i].sourceType = "daybook"
                        /\ a[i].status = "Active" /\ b[i].status = "Overdue"
                        /\ ~(a[i].dueDate < loc[p].prev.at)
                        /\ b[i].dueDate < rsp'.at]_vars

\* C4 witness: a second sync, later than the first and with no read fault,
\* has found a day-book disbursement due since the first sync.
C4_Witness ==
    /\ SyncDone /\ rsp.elapsed > 0 /\ ~rsp.vFault /\ ~rsp.dFault
    /\ \E i \in 1..Len(rsp.snapshot) :
        /\ rsp.snapshot[i].sourceType = "daybook"
        /\ rsp.snapshot[i].status = "Overdue"
        /\ rsp.snapshot[i].dueDate >= rsp.at - rsp.elapsed

\* All the counts and amounts of a summary are 0.
ZeroSummary(summary) == \A f \in DOMAIN summary : summary[f] = 0

\* C5: a query() that finds no snapshot builds one from the sources (the
\* vouchers if they can be read and are not empty, the day-books otherwise),
\* saves it and answers from it; if the save fails it answers 200 with
\* data = [], totalItems = 0, all summary counts 0 and dataSource 'empty'.
C5_LazyPopulationOrEmpty ==
    [][\A p \in Procs :
        pc[p] = "queryPopulate" /\ pc'[p] = "idle" =>
            /\ rsp'.op = "query" /\ rsp'.code = 200
            /\ \/ /\ rsp'.lazy = "saved"
                  /\ rsp'.dataSource = "stocksummary"
                  /\ \E d \in store' \ store :
                        /\ store' = store \cup {d}
                        /\ d.id = loc[p].docId
                        /\ d.loans = rsp'.snapshot
                        /\ IF vouchers # {} /\ ~rsp'.vFault
                           THEN /\ AllOfType(d.loans, "voucher")
                                /\ Len(d.loans) = Cardinality(vouchers)
                           ELSE AllOfType(d.loans, "daybook")
                        /\ LET answer == QueryResponse(d, loc[p].q, "saved")
                           IN  /\ rsp'.data = answer.data
                               /\ rsp'.totalItems = answer.totalItems
                               /\ rsp'.summary = answer.summary
               \/ /\ rsp'.lazy = "failed"
                  /\ store' = store
                  /\ rsp'.data = <<>> /\ rsp'.totalItems = 0
                  /\ ZeroSummary(rsp'.summary)
                  /\ rsp'.dataSource = "empty"]_vars

\* C5 witness: the vouchers could be read but the snapshot could not be
\* saved; the query was answered with the empty result and the store is empty.
C5_Witness ==
    /\ rsp.op = "query" /\ rsp.code = 200 /\ rsp.lazy = "failed"
    /\ rsp.dataSource = "empty" /\ rsp.data = <<>>
    /\ vouchers # {} /\ ~rsp.vFault
    /\ store = {}

\* The response sent last is a success of query().
QueryDone == rsp.op = "query" /\ rsp.code = 200

\* The values of statusFilter that name a filter, and the ones that disable it.
StatusFilterValues == {"active", "overdue", "closed"}

DocumentedStatusFilters == StatusFilterValues \cup {"", "all"}

\* The loan satisfies every predicate the parameters supply.
Matches(loan, q) ==
    /\ q.search # <<>> => SearchMatch(loan, q.search)
    /\ q.dateFilter # <<>> =>
        /\ loan.disbursementDate >= q.dateFilter[1]
        /\ loan.disbursementDate < q.dateFilter[1] + DayLen
    /\ q.statusFilter \in StatusFilterValues => loan.loanStatus = q.statusFilter
    /\ q.jewelTypeFilter \notin {"", "all"} => loan.jewelType = q.jewelTypeFilter

\* The loans of the array that satisfy every predicate supplied, in order.
Matching(loans, q) ==
    LET matches(l) == Matches(l, q) IN SelectSeq(loans, matches)

\* C6: for every documented value of the filters, the loans totalItems counts
\* are exactly the loans of the snapshot that satisfy every supplied predicate
\* among search, dateFilter, statusFilter and jewelTypeFilter; an absent
\* predicate, or 'all', excludes no loan, so statusFilter 'all' alone gives
\* the full snapshot.
C6_FilterConjunction ==
    QueryDone /\ rsp.params.statusFilter \in DocumentedStatusFilters =>
        LET q == rsp.params
            expected == Matching(rsp.snapshot, q)
        IN  /\ rsp.totalItems = Len(expected)
            /\ rsp.summary.totalLoans = Len(expected)
            /\ q.page = 1 /\ q.limit >= Len(rsp.snapshot) =>
                rsp.data = [i \in 1..Len(expected) |-> FormatLoan(expected[i])]
            /\ /\ q.search = <<>> /\ q.dateFilter = <<>>
               /\ q.statusFilter \in {"", "all"}
               /\ q.jewelTypeFilter \in {"", "all"}
               => rsp.totalItems = Len(rsp.snapshot)

\* C6 witness: a query with search and statusFilter 'active' returned some
\* loans, and the snapshot holds a loan only the search matches and a loan
\* only the status filter matches.
C6_Witness ==
    /\ QueryDone
    /\ rsp.params.search # <<>> /\ rsp.params.statusFilter = "active"
    /\ rsp.totalItems > 0 /\ Len(rsp.data) = rsp.totalItems
    /\ \E i, j \in 1..Len(rsp.snapshot) :
        /\ SearchMatch(rsp.snapshot[i], rsp.params.search)
        /\ rsp.snapshot[i].loanStatus # "active"
        /\ ~SearchMatch(rsp.snapshot[j], rsp.params.search)
        /\ rsp.snapshot[j].loanStatus = "active"

\* C7: for every snapshot, filter combination, page and limit, totalItems is
\* the size of the filtered set and data holds at most limit loans.
C7_PageWithinLimit ==
    QueryDone /\ rsp.lazy # "failed" =>
        /\ rsp.totalItems = Len(ApplyFilters(rsp.snapshot, rsp.params))
        /\ Len(rsp.data) <= rsp.params.limit

\* The condition under which the sweep may change a loan.
ActiveAndDue(loan, today) == loan.loanStatus = "active" /\ loan.dueDate < today

\* C8: sweepOverdue() changes a loan only if its loanStatus is 'active' and
\* its dueDate is before the time of the sweep; every other loan (overdue,
\* closed, inactive, or active and not yet due) keeps all its fields, and no
\* loan is added or removed.
C8_SweepFrame ==
    [][\A p \in Procs :
        /\ /\ pc[p] = "idle"
           /\ pc'[p] = "sweepSave" \/ (rsp'.op = "sweep" /\ rsp'.by = p)
           => store' = store
        /\ pc[p] = "sweepSave" =>
            \A d \in store :
                \E e \in store' :
                    /\ e.id = d.id
                    /\ Len(e.loans) = Len(d.loans)
                    /\ \A i \in 1..Len(d.loans) :
                        ~ActiveAndDue(d.loans[i], loc[p].at) =>
                            e.loans[i] = d.loans[i]]_vars

\* C8 witness: a sweep has marked a loan overdue and the snapshot still holds
\* a closed loan whose due date lies before the sweep.
C8_Witness ==
    /\ rsp.op = "sweep" /\ rsp.code = 200 /\ rsp.modifiedCount > 0
    /\ \E d \in store :
        \E i, j \in 1..Len(d.loans) :
            /\ d.loans[i].loanStatus = "closed" /\ d.loans[i].status = "Closed"
            /\ d.loans[i].dueDate < rsp.at
            /\ d.loans[j].status = "Overdue" /\ d.loans[j].dueDate < rsp.at

\* C9: a sweepOverdue() that finds no active loan of the current snapshot due
\* returns modifiedCount = 0 and leaves the store unchanged; and a sweep that
\* saves leaves no active loan due at its time, so that the next sweep at that
\* time is such a sweep.
C9_SweepIdempotent ==
    [][\A p \in Procs :
        /\ /\ pc[p] = "idle"
           /\ pc'[p] = "sweepSave"
              \/ (rsp'.op = "sweep" /\ rsp'.by = p /\ rsp' # rsp)
           /\ store # {}
           /\ \A d \in Latest(store) :
                \A i \in 1..Len(d.loans) : ~ActiveAndDue(d.loans[i], now)
           => /\ pc'[p] = "idle"
              /\ rsp'.code = 200 /\ rsp'.modifiedCount = 0
              /\ store' = store
        /\ pc[p] = "sweepSave" /\ rsp'.code = 200 =>
            \A d \in store' :
                d.id = loc[p].doc.id =>
                    \A i \in 1..Len(d.loans) :
                        ~ActiveAndDue(d.loans[i], loc[p].at)]_vars

\* C9 witness: a sweep run again at the time of the previous sweep, on a
\* snapshot with a loan that sweep marked overdue, modified nothing.
C9_Witness ==
    /\ rsp.op = "sweep" /\ rsp.code = 200
    /\ rsp.modifiedCount = 0 /\ rsp.elapsed = 0
    /\ \E d \in Latest(store) :
        /\ d.lastUpdated = rsp.at
        /\ \E i \in 1..Len(d.loans) :
            /\ d.loans[i].status = "Overdue" /\ d.loans[i].loanStatus = "overdue"
            /\ d.loans[i].sourceType = "voucher"

\* C10: after a successful setStatus(id, 'Closed') the targeted loan has
\* status 'Closed', loanStatus 'closed', balanceAmount 0, paymentProgress 100,
\* repaidAmount equal to its overallLoanAmount and closedDate the time of the
\* call, whatever its state before.
C10_ClosedIsSettled ==
    [][\A p \in Procs :
        pc[p] = "setStatusSave" /\ rsp'.code = 200 /\ rsp'.status = "Closed" =>
            \E d \in store' :
                /\ d.id = loc[p].doc.id
                /\ LET i == FindIndex(d.loans, rsp'.id)
                   IN  /\ i > 0
                       /\ d.loans[i].status = "Closed"
                       /\ d.loans[i].loanStatus = "closed"
                       /\ d.loans[i].balanceAmount = 0
                       /\ d.loans[i].paymentProgress = 100
                       /\ d.loans[i].repaidAmount = loc[p].loans[i].overallLoanAmount
                       /\ d.loans[i].repaidAmount = d.loans[i].overallLoanAmount
                       /\ d.loans[i].closedDate = <<rsp'.at>>
                       /\ rsp'.data = <<d.loans[i]>>]_vars

\* C10 witness: a loan with a positive amount, not closed in its source, has
\* been closed and is stored settled.
C10_Witness ==
    /\ rsp.op = "setStatus" /\ rsp.code = 200 /\ rsp.status = "Closed"
    /\ Len(rsp.data) = 1
    /\ rsp.data[1].overallLoanAmount > 0
    /\ rsp.data[1].repaidAmount = rsp.data[1].overallLoanAmount
    /\ rsp.data[1].closedDate = <<rsp.at>>
    /\ \E v \in vouchers : v.id = rsp.data[1].voucherId /\ v.status = "Active"
    /\ \E d \in store : \E i \in 1..Len(d.loans) : d.loans[i] = rsp.data[1]

\* The status values outside the ones updateVoucherStatus accepts.
InvalidStatuses == StatusInputs \ {"Active", "Partial", "Overdue", "Closed"}

\* C11: setStatus with a status outside {Active, Partial, Overdue, Closed} is
\* answered 400 at once, and a setStatus answered 400 carried such a status;
\* the rejected call leaves every snapshot document, and so every loan, as it
\* was.
C11_InvalidStatusRejected ==
    [][\A p \in Procs :
        /\ \A id \in LookupIds, status \in InvalidStatuses :
            SetStatusFind(p, id, status) =>
                /\ rsp'.op = "setStatus" /\ rsp'.code = 400
                /\ pc'[p] = "idle"
                /\ store' = store
        /\ /\ pc[p] = "idle"
           /\ rsp'.op = "setStatus" /\ rsp'.by = p /\ rsp'.code = 400
           => /\ rsp'.status \notin {"Active", "Partial", "Overdue", "Closed"}
              /\ store' = store]_vars

\* C11 witness: a setStatus with status 'Pending' was answered 400 while the
\* store holds a snapshot with loans.
C11_Witness ==
    /\ rsp.op = "setStatus" /\ rsp.code = 400 /\ rsp.status = "Pending"
    /\ \E d \in store : Len(d.loans) > 0

\* Some loan of the array has id as its _id or as its voucherId.
HasLoan(loans, id) ==
    \E i \in 1..Len(loans) : loans[i].id = id \/ loans[i].voucherId = id

\* No snapshot exists, or no loan of the current snapshot is named by id.
NotFound(id) == store = {} \/ \A d \in Latest(store) : ~HasLoan(d.loans, id)

\* C12: setStatus with a valid status, and the read of one loan, answer 404
\* and leave the store as it was when no snapshot exists or when id is neither
\* the _id nor the voucherId of a loan of the current snapshot.
C12_NotFound ==
    [][\A p \in Procs, id \in LookupIds :
        /\ \A status \in Statuses :
            NotFound(id) /\ SetStatusFind(p, id, status) =>
                /\ rsp'.op = "setStatus" /\ rsp'.code = 404
                /\ pc'[p] = "idle"
                /\ store' = store
        /\ NotFound(id) /\ GetById(p, id) =>
                /\ rsp'.op = "getById" /\ rsp'.code = 404
                /\ pc'[p] = "idle"
                /\ store' = store]_vars

\* C12 witness: a lookup was answered 404 while the store holds a snapshot
\* with loans, none of them named by one of the ids of the requests.
C12_Witness ==
    /\ rsp.op \in {"setStatus", "getById"} /\ rsp.code = 404
    /\ \E d \in store :
        /\ Len(d.loans) > 0
        /\ \E id \in LookupIds : ~HasLoan(d.loans, id)
        /\ \E id \in LookupIds : HasLoan(d.loans, id)

\* The values of loanStatus.
LoanStatuses == {"active", "overdue", "closed", "inactive"}

\* C13: every loan of every snapshot in the store has its loanStatus among
\* active, overdue, closed and inactive, and has loanStatus 'closed' exactly
\* when its status is 'Closed'.
C13_ClosedIffClosed ==
    \A d \in store :
        \A i \in 1..Len(d.loans) :
            /\ d.loans[i].loanStatus \in LoanStatuses
            /\ d.loans[i].loanStatus = "closed" <=> d.loans[i].status = "Closed"

\* C13 witness: after a sweep, the snapshot holds a loan closed by setStatus,
\* a loan closed in its source and a loan the sweep or the reader found
\* overdue.
C13_Witness ==
    /\ rsp.op = "sweep" /\ rsp.code = 200
    /\ \E d \in store :
        \E i, j \in 1..Len(d.loans) :
            /\ d.loans[i].loanStatus = "closed"
            /\ d.loans[i].closedDate # <<>> /\ d.loans[i].closedDate[1] >= 0
            /\ d.loans[j].loanStatus = "closed"
            /\ d.loans[j].closedDate # <<>> /\ d.loans[j].closedDate[1] < 0
            /\ \E k \in 1..Len(d.loans) : d.loans[k].loanStatus = "overdue"

\* The derivation rule of loanStatus on a loan computed at time today:
\* 'overdue' exactly when the status is not Closed and the due date is before
\* today, and 'active' only when the status is Active or Partial.
FollowsRule(loan, today) ==
    /\ loan.loanStatus = "overdue" <=>
            (loan.status # "Closed" /\ loan.dueDate < today)
    /\ loan.loanStatus = "active" => loan.status \in {"Active", "Partial"}

\* The loans a sync() built follow the rule at the time of the sync.
SyncFollowsRule(p) ==
    SyncCompletes(p) =>
        \A i \in 1..Len(rsp'.snapshot) : FollowsRule(rsp'.snapshot[i], rsp'.at)

\* The loans a sweep changed follow the rule at the time of the sweep.
SweepFollowsRule(p) ==
    pc[p] = "sweepSave" /\ rsp'.code = 200 =>
        \A i \in 1..Len(loc[p].loans) :
            loc[p].doc.loans[i] # loc[p].loans[i] =>
                /\ FollowsRule(loc[p].doc.loans[i], loc[p].at)
                /\ loc[p].doc.loans[i].loanStatus = "overdue"

\* Handler p completes a setStatus successfully in this step.
SetStatusCompletes(p) == pc[p] = "setStatusSave" /\ rsp'.code = 200

\* C14 as stated: whenever sync, sweepOverdue or setStatus computes a loan's
\* loanStatus, the result is 'overdue' exactly when the status is not Closed
\* and the due date is before now, and 'active' only for Active or Partial.
C14_RuleInEveryOperation ==
    [][\A p \in Procs :
        /\ SyncFollowsRule(p)
        /\ SweepFollowsRule(p)
        /\ SetStatusCompletes(p) => FollowsRule(rsp'.data[1], rsp'.at)]_vars

\* C14 amended: whenever sync or sweepOverdue computes a loan's loanStatus at
\* time now, the result is 'overdue' exactly when the status is not Closed and
\* the due date is before now, and 'active' only for Active or Partial;
\* setStatus derives loanStatus from the new status alone, whatever the due
\* date (Closed -> closed, Overdue -> overdue, Active or Partial -> active), so
\* 'active' only for Active or Partial holds there too.
C14_RuleInSyncAndSweep ==
    [][\A p \in Procs :
        /\ SyncFollowsRule(p)
        /\ SweepFollowsRule(p)
        /\ SetStatusCompletes(p) =>
            LET loan == rsp'.data[1]
            IN  /\ loan.status = rsp'.status
                /\ loan.loanStatus = "closed" <=> loan.status = "Closed"
                /\ loan.loanStatus = "overdue" <=> loan.status = "Overdue"
                /\ loan.loanStatus = "active" <=>
                        loan.status \in {"Active", "Partial"}]_vars

\* C14 witness: setStatus made a loan past its due date active, in a snapshot
\* where the sync had built a closed loan that is past its due date too.
C14_Witness ==
    /\ rsp.op = "setStatus" /\ rsp.code = 200 /\ rsp.status = "Active"
    /\ rsp.data[1].loanStatus = "active"
    /\ rsp.data[1].dueDate < rsp.at
    /\ \E d \in store :
        \E i, j \in 1..Len(d.loans) :
            /\ d.loans[i] = rsp.data[1]
            /\ d.loans[j].loanStatus = "closed"
            /\ d.loans[j].dueDate < d.lastSyncedAt

\* The derivation model: the whole voucher pool and the day-books, read by
\* sync() and by the lazy population at different times.
InitDerive ==
    InitWith({1}, 1,
             {Prefix(VoucherPool, MaxQueryVouchers)},
             {Prefix(DayBookPool, MaxDayBooks)})

NextDerive ==
    \/ Tick
    \/ \E p \in procs : SyncStart(p)
    \/ \E p \in procs : SyncDelete(p)
    \/ \E p \in procs : SyncSave(p)
    \/ \E p \in procs : QueryFind(p, Params(<<>>, <<>>, "", "", 1, DefaultLimit))
    \/ \E p \in procs : QueryPopulate(p)
    \/ \E p \in procs : Reset(p)

SpecDerive == InitDerive /\ [][NextDerive]_vars

\* days is the number of days, rounded up, from dueDate to today.
IsCeilDays(days, dueDate, today) ==
    /\ days * DayLen >= today - dueDate
    /\ (days - 1) * DayLen < today - dueDate

\* The loan is the one the claim expects for the voucher at time today.
DerivedAsExpected(loan, voucher, today) ==
    IF voucher.status # "Closed" /\ voucher.dueDate < today
    THEN /\ loan.loanStatus = "overdue"
         /\ IsCeilDays(loan.daysOverdue, voucher.dueDate, today)
         /\ today - voucher.dueDate = DayLen => loan.daysOverdue = 1
    ELSE /\ loan.daysOverdue = 0
         /\ loan.loanStatus =
                IF voucher.status = "Closed" THEN "closed"
                ELSE IF voucher.status \in {"Active", "Partial"} THEN "active"
                ELSE "inactive"

\* C15: in the snapshot of a sync() that read the vouchers, the loan of every
\* voucher that is not Closed and is due before the sync time has loanStatus
\* 'overdue' and daysOverdue = ceil((now - dueDate) / 1 day); the loan of
\* every other voucher has daysOverdue = 0 and loanStatus closed for Closed,
\* active for Active or Partial, inactive otherwise.
C15_VoucherOverdueDerivation ==
    [][\A p \in Procs :
        SyncCompletes(p) /\ vouchers # {} /\ ~rsp'.vFault =>
            \A v \in vouchers :
                \E i \in 1..Len(rsp'.snapshot) :
                    /\ rsp'.snapshot[i].voucherId = v.id
                    /\ \A j \in 1..Len(rsp'.snapshot) :
                            rsp'.snapshot[j].voucherId = v.id => j = i
                    /\ DerivedAsExpected(rsp'.snapshot[i], v, rsp'.at)]_vars

\* C15 witness: a sync read the vouchers and derived an overdue loan whose due
\* date lies a fraction of a day back (one day overdue), an overdue loan with
\* two days, a closed loan past its due date with no days and an inactive one.
C15_Witness ==
    /\ SyncDone /\ ~rsp.vFault
    /\ \E i, j, k, l \in 1..Len(rsp.snapshot) :
        /\ rsp.snapshot[i].sourceType = "voucher"
        /\ rsp.snapshot[i].loanStatus = "overdue"
        /\ rsp.snapshot[i].daysOverdue = 1
        /\ rsp.at - rsp.snapshot[i].dueDate < DayLen
        /\ rsp.snapshot[j].loanStatus = "overdue"
        /\ rsp.snapshot[j].daysOverdue = 2
        /\ rsp.snapshot[k].loanStatus = "closed"
        /\ rsp.snapshot[k].dueDate < rsp.at /\ rsp.snapshot[k].daysOverdue = 0
        /\ rsp.snapshot[l].loanStatus = "inactive"

\* C16: the dashboard request answers 404 when no snapshot exists and 200
\* otherwise, and in every case leaves the store as it was: it creates,
\* modifies and deletes no snapshot document, so that on an empty store (after
\* reset, or before the first sync) the store stays empty.
C16_DashboardReadOnly ==
    [][\A p \in Procs :
        pc[p] = "idle" /\ rsp'.op = "dashboard" /\ rsp'.by = p =>
            /\ store' = store
            /\ store = {} => rsp'.code = 404
            /\ store # {} => rsp'.code = 200
            /\ pc'[p] = "idle"]_vars

\* C16 witness: the dashboard was answered 404 on a store that is empty after
\* earlier sync and reset requests, and the store is still empty.
C16_Witness ==
    /\ rsp.op = "dashboard" /\ rsp.code = 404
    /\ store = {} /\ nextDoc > 1

\* The race model: sync() and setStatus(voucher 1, 'Closed') on two handlers,
\* with room for two snapshots to be inserted.
InitRace ==
    InitWith(Procs, MaxDocs - 1, {Prefix(VoucherPool, 1)}, {Prefix(DayBookPool, 1)})

NextRace ==
    \/ \E p \in procs : SyncStart(p)
    \/ \E p \in procs : SyncDelete(p)
    \/ \E p \in procs : SyncSave(p)
    \/ \E p \in procs : SetStatusFind(p, VoucherRef(1), "Closed")
    \/ \E p \in procs : SetStatusSave(p)

SpecRace == InitRace /\ [][NextRace]_vars

\* The loan as setStatus(id, 'Closed') at time t alone leaves it.
ClosedAt(loan, t) ==
    [loan EXCEPT !.status = "Closed", !.loanStatus = "closed",
                 !.closedDate = <<t>>, !.repaidAmount = loan.overallLoanAmount,
                 !.balanceAmount = 0, !.paymentProgress = 100]

\* The loans sync() alone could have built from the sources by now.
BuiltAlone ==
    UNION {LET built == BuildLoans(vouchers, dayBooks, c[1], c[2], c[3])
           IN  {built[j] : j \in 1..Len(built)} :
                c \in (0..now) \X BOOLEAN \X BOOLEAN}

\* Every stored loan is in a state sync() alone, or sync() and then setStatus
\* alone, could have produced from the sources by now.
AllProducibleAlone ==
    LET built == BuiltAlone
        closed == {ClosedAt(b, u) : b \in built, u \in 0..now}
    IN  \A d \in store : \A i \in 1..Len(d.loans) :
            StripId(d.loans[i]) \in built \cup closed

\* C17: with sync() and setStatus() racing, the snapshot a sync() inserts is
\* the one it built from the sources and is a current one; the save of a
\* setStatus writes its copy over the document it read if that document is
\* still stored, and fails, changing nothing, if sync() has replaced it (so
\* its status change is absent from the store); and every loan of the store is
\* at all times in a state one of the two requests alone could have produced.
C17_LastWriteWins ==
    [][/\ AllProducibleAlone'
       /\ \A p \in Procs :
            /\ SyncCompletes(p) =>
                \E d \in Latest(store') :
                    /\ d.id = loc[p].docId
                    /\ StripIds(d.loans) =
                            BuildLoans(vouchers, dayBooks, loc[p].at,
                                       loc[p].vFault, loc[p].dFault)
            /\ pc[p] = "setStatusSave" /\ pc'[p] = "idle" =>
                IF \E d \in store : d.id = loc[p].doc.id
                THEN \/ rsp'.code = 500 /\ store' = store
                     \/ /\ rsp'.code = 200
                        /\ store' = {d \in store : d.id # loc[p].doc.id}
                                        \cup {loc[p].doc}
                ELSE rsp'.code = 500 /\ store' = store]_vars

\* C17 witness: both requests have finished; setStatus had read the snapshot
\* that sync() has replaced since, its save found no document, and voucher 1
\* is Active, not Closed, in the snapshot that is current.
C17_Witness ==
    /\ \A p \in Procs : pc[p] = "idle"
    /\ rsp.op = "setStatus" /\ rsp.code = 500
    /\ rsp.error = "document not found"
    /\ store # {}
    /\ \A d \in store :
        \E i \in 1..Len(d.loans) :
            /\ d.loans[i].voucherId = VoucherRef(1)
            /\ d.loans[i].status = "Active"
            /\ d.loans[i].closedDate = <<>>

\* C18: no read fault of a loan source makes sync() fail.  A sync() whose
\* voucher read faulted goes on to its store operations with the loans of the
\* day-books, and with no loan at all if the day-book read faulted too; when
\* it succeeds, its snapshot, empty or not, is the only one stored.
C18_SourceFaultsRecovered ==
    /\ \A p \in procs : pc[p] \in {"syncDelete", "syncSave"} /\ loc[p].vFault =>
            loc[p].loans = IF loc[p].dFault THEN <<>>
                           ELSE ConcatDayBooks(SortDesc(dayBooks, TRUE), loc[p].at)
    /\ SyncDone /\ rsp.vFault =>
        /\ rsp.dFault => rsp.snapshot = <<>> /\ rsp.totalItems = 0
        /\ ~rsp.dFault =>
            StripIds(rsp.snapshot) = ConcatDayBooks(SortDesc(dayBooks, TRUE), rsp.at)
        /\ \E d \in store : store = {d} /\ d.loans = rsp.snapshot

\* C18 witness: both collections hold documents, both reads of a sync()
\* faulted, and the sync succeeded: its snapshot with zero loans has replaced
\* the snapshot stored before.
C18_Witness ==
    /\ SyncDone /\ rsp.vFault /\ rsp.dFault
    /\ vouchers # {} /\ dayBooks # {}
    /\ rsp.deletedCount > 0
    /\ \E d \in store : store = {d} /\ d.loans = <<>>

\* C19: in every stored snapshot every loan has daysOverdue >= 0, and
\* daysOverdue = 0 unless its loanStatus is 'overdue'.
C19_DaysOverdueOnlyWhenOverdue ==
    \A d \in store : \A i \in 1..Len(d.loans) :
        /\ d.loans[i].daysOverdue >= 0
        /\ d.loans[i].loanStatus # "overdue" => d.loans[i].daysOverdue = 0

\* Pages from..to of the loans, one after the other.
RECURSIVE ConcatPages(_, _, _, _)
ConcatPages(loans, from, to, limit) ==
    IF from > to THEN <<>>
    ELSE Paginate(loans, from, limit) \o ConcatPages(loans, from + 1, to, limit)

\* The loans at positions offset + 1 .. offset + limit of the array, as far
\* as it goes.
LoansAtOffset(loans, offset, limit) ==
    [i \in 1..Max(0, Min(limit, Len(loans) - offset)) |-> loans[offset + i]]

\* C20: for limit >= 1, page p of query() holds the filtered loans from
\* offset (p - 1) * limit on, at most limit of them and in stored order;
\* totalPages is ceil(totalItems / limit); and pages 1..totalPages one after
\* the other are exactly the filtered loans, in the snapshot's order.
C20_PagesPartitionFiltered ==
    QueryDone /\ rsp.lazy # "failed" /\ rsp.params.limit >= 1
              /\ rsp.params.page >= 1 =>
        LET filtered == ApplyFilters(rsp.snapshot, rsp.params)
            limit == rsp.params.limit
            page == LoansAtOffset(filtered, (rsp.params.page - 1) * limit, limit)
        IN  /\ rsp.data = [i \in 1..Len(page) |-> FormatLoan(page[i])]
            /\ rsp.totalPages # <<>>
            /\ rsp.totalPages[1] * limit >= rsp.totalItems
            /\ (rsp.totalPages[1] - 1) * limit < rsp.totalItems
            /\ rsp.totalItems = Len(filtered)
            /\ ConcatPages(filtered, 1, rsp.totalPages[1], limit) = filtered
            /\ \A i, j \in 1..Len(filtered) :
                    i < j => \E a, b \in 1..Len(rsp.snapshot) :
                        /\ a < b
                        /\ rsp.snapshot[a] = filtered[i]
                        /\ rsp.snapshot[b] = filtered[j]

\* C20 witness: query() answered the third and last page, of one loan, of a
\* snapshot of five loans read two per page.
C20_Witness ==
    /\ QueryDone /\ rsp.lazy # "failed"
    /\ rsp.params.limit = 2 /\ rsp.params.page = 3
    /\ rsp.totalItems = 5 /\ rsp.totalPages = <<3>>
    /\ Len(rsp.data) = 1
    /\ rsp.data[1] = FormatLoan(rsp.snapshot[5])

\* The mutation model: one snapshot, built by one sync(), and the requests
\* that change its loans, as time passes.
InitMutate ==
    InitWith({1}, MaxDocs, {Prefix(VoucherPool, MaxVouchers)},
             {Prefix(DayBookPool, 1)})

\* The ids the setStatus requests of the mutation model name: a voucher and
\* the second loan of the snapshot.
MutateIds == {VoucherRef(1), LoanId(MaxDocs, 2)}

NextMutate ==
    \/ Tick
    \/ \E p \in procs : SyncStart(p)
    \/ \E p \in procs : SyncDelete(p)
    \/ \E p \in procs : SyncSave(p)
    \/ \E p \in procs : SweepFind(p)
    \/ \E p \in procs : SweepSave(p)
    \/ \E p \in procs, id \in MutateIds, status \in Statuses :
            SetStatusFind(p, id, status)
    \/ \E p \in procs : SetStatusSave(p)

SpecMutate == InitMutate /\ [][NextMutate]_vars

\* The number of loans that are active in before and overdue in after.
Transitioned(before, after) ==
    Cardinality({i \in 1..Len(before) :
                    /\ before[i].loanStatus = "active"
                    /\ after[i].loanStatus = "overdue"})

\* C21: a sweepOverdue() that answers without saving reports modifiedCount = 0
\* and leaves the store, lastUpdated included, as it was; one that saves
\* reports as modifiedCount the number of loans, at least one, that its save
\* turned from active to overdue, and the snapshot's lastUpdated becomes the
\* time of the sweep; a failed save changes nothing.
C21_SweepCountsAndWritesIfAny ==
    [][\A p \in procs :
        /\ pc[p] = "idle" /\ rsp'.op = "sweep" /\ rsp'.by = p /\ rsp' # rsp
           /\ rsp'.code = 200 =>
            /\ rsp'.modifiedCount = 0
            /\ store' = store
        /\ pc[p] = "idle" /\ pc'[p] = "sweepSave" =>
            /\ store' = store
            /\ \E d \in Latest(store) :
                \E i \in 1..Len(d.loans) : ActiveAndDue(d.loans[i], now)
        /\ pc[p] = "sweepSave" /\ pc'[p] = "idle" =>
            IF rsp'.code = 200
            THEN \E d \in store, e \in store' :
                    /\ d.id = e.id
                    /\ store' = (store \ {d}) \cup {e}
                    /\ Len(e.loans) = Len(d.loans)
                    /\ rsp'.modifiedCount = Transitioned(d.loans, e.loans)
                    /\ rsp'.modifiedCount > 0
                    /\ e.lastUpdated = rsp'.at
                    /\ e.lastUpdated >= d.lastUpdated
            ELSE store' = store]_vars

\* C21 witness: a sweep found nothing to do in a snapshot that holds loans and
\* was last written before the sweep; it reported 0 and lastUpdated is still
\* the earlier time.
C21_Witness ==
    /\ rsp.op = "sweep" /\ rsp.code = 200 /\ rsp.modifiedCount = 0
    /\ \E d \in store :
        /\ store = {d}
        /\ Len(d.loans) > 0
        /\ d.lastUpdated < rsp.at

\* C22: sync() deletes and then inserts, in two steps.  Its deleteMany leaves
\* the store with no snapshot, or fails and leaves it untouched with an error;
\* from the store with no snapshot its insert either adds the whole snapshot
\* built from the sources, or fails, leaving no snapshot, and the sync answers
\* with an error.  No step writes a part of a snapshot.
C22_DeleteThenInsert ==
    [][\A p \in procs :
        /\ pc[p] = "syncDelete" /\ pc'[p] = "syncSave" => store' = {}
        /\ pc[p] = "syncDelete" /\ pc'[p] = "idle" =>
            /\ store' = store
            /\ rsp'.op = "sync" /\ rsp'.code = 500
        /\ pc[p] = "syncSave" /\ pc'[p] = "idle" =>
            /\ store = {}
            /\ rsp'.op = "sync"
            /\ IF rsp'.code = 200
               THEN \E d \in store' :
                        /\ store' = {d}
                        /\ StripIds(d.loans) =
                                BuildLoans(vouchers, dayBooks, loc[p].at,
                                           loc[p].vFault, loc[p].dFault)
                        /\ \A i \in 1..Len(d.loans) : d.loans[i].id = LoanId(d.id, i)
               ELSE rsp'.code = 500 /\ store' = {}]_vars

\* C22 witness: inside a sync() that found one snapshot, after its deleteMany
\* and before its insert, the store holds no snapshot.
C22_Witness ==
    \E p \in procs :
        /\ pc[p] = "syncSave"
        /\ loc[p].modifiedCount = 1
        /\ Len(loc[p].loans) > 1
        /\ store = {}

\* The transaction carries both a voucher reference and a bill number.
CarriesBoth(transaction) ==
    Len(transaction.voucherId) > 0 /\ Len(transaction.billNo) > 0

\* The loans of the array emitted for the transaction of the day-book, from
\* its closedLoans (closed) or from its loansDisbursed.
EmittedFor(loans, dayBook, transaction, closed) ==
    {i \in 1..Len(loans) :
        /\ loans[i].sourceType = "daybook"
        /\ loans[i].sourceId = dayBook.id
        /\ loans[i].billNo = transaction.billNo
        /\ loans[i].voucherId = transaction.voucherId
        /\ (loans[i].status = "Closed") = closed}

\* The transactions of all day-books that carry both references.
QualifyingTransactions ==
    UNION {{<<db.id, FALSE, k>> : k \in {j \in 1..Len(db.loansDisbursed) :
                                            CarriesBoth(db.loansDisbursed[j])}}
           \cup
           {<<db.id, TRUE, k>> : k \in {j \in 1..Len(db.closedLoans) :
                                            CarriesBoth(db.closedLoans[j])}} :
           db \in dayBooks}

\* The snapshot of the sync() answered last was read from the day-books.
SyncedFromDayBooks == SyncDone /\ rsp.vFault /\ ~rsp.dFault

\* C23: a snapshot read from the day-books holds exactly one loan for every
\* transaction of loansDisbursed or closedLoans that carries both a voucherId
\* and a billNo, and none for a transaction missing either, so as many loans as
\* there are such transactions; a loan emitted for a closedLoans transaction
\* has status Closed, balanceAmount 0 and paymentProgress 100 whatever its due
\* date.
C23_OneLoanPerQualifyingTransaction ==
    SyncedFromDayBooks =>
        /\ Len(rsp.snapshot) = Cardinality(QualifyingTransactions)
        /\ \A db \in dayBooks :
            /\ \A k \in 1..Len(db.loansDisbursed) :
                Cardinality(EmittedFor(rsp.snapshot, db, db.loansDisbursed[k], FALSE))
                    = IF CarriesBoth(db.loansDisbursed[k]) THEN 1 ELSE 0
            /\ \A k \in 1..Len(db.closedLoans) :
                /\ Cardinality(EmittedFor(rsp.snapshot, db, db.closedLoans[k], TRUE))
                    = IF CarriesBoth(db.closedLoans[k]) THEN 1 ELSE 0
                /\ Cardinality(EmittedFor(rsp.snapshot, db, db.closedLoans[k], FALSE)) = 0
                /\ \A i \in EmittedFor(rsp.snapshot, db, db.closedLoans[k], TRUE) :
                    /\ rsp.snapshot[i].loanStatus = "closed"
                    /\ rsp.snapshot[i].balanceAmount = 0
                    /\ rsp.snapshot[i].paymentProgress = 100

\* C23 witness: a snapshot read from day-books that hold transactions without
\* a voucherId and without a billNo; it has fewer loans than there are
\* transactions, and its closed loan is past its due date.
C23_Witness ==
    /\ SyncedFromDayBooks
    /\ \E db \in dayBooks : \E k \in 1..Len(db.loansDisbursed) :
            db.loansDisbursed[k].voucherId = <<>>
    /\ \E db \in dayBooks : \E k \in 1..Len(db.loansDisbursed) :
            db.loansDisbursed[k].billNo = <<>>
    /\ Len(rsp.snapshot) = 3
    /\ \E i \in 1..Len(rsp.snapshot) :
        /\ rsp.snapshot[i].status = "Closed"
        /\ rsp.snapshot[i].dueDate < rsp.at
        /\ rsp.snapshot[i].balanceAmount = 0

\* The (status, loanStatus) pairs a mutated loan may have.
ConsistentPairs ==
    {<<"Active", "active">>, <<"Partial", "active">>,
     <<"Overdue", "overdue">>, <<"Closed", "closed">>}

\* The (status, loanStatus) pair of a loan.
Pair(loan) == <<loan.status, loan.loanStatus>>

\* C24: the loan a successful setStatus(id, s) wrote has status s and the
\* loanStatus closed for Closed, overdue for Overdue and active for Active or
\* Partial, never inactive; every loan a sweepOverdue() changed has the pair
\* (Overdue, overdue).  Either way the pair of a mutated loan is one of
\* (Active, active), (Partial, active), (Overdue, overdue), (Closed, closed).
C24_MutationsKeepThePairConsistent ==
    [][\A p \in procs :
        /\ pc[p] = "setStatusSave" /\ pc'[p] = "idle" /\ rsp'.code = 200 =>
            \E e \in store' :
                /\ e.id = loc[p].doc.id
                /\ LET loan == e.loans[loc[p].idx]
                   IN  /\ rsp'.data = <<loan>>
                       /\ loan.status = rsp'.status
                       /\ loan.loanStatus # "inactive"
                       /\ Pair(loan) \in ConsistentPairs
        /\ pc[p] = "sweepSave" /\ pc'[p] = "idle" /\ rsp'.code = 200 =>
            \A d \in store, e \in store' :
                d.id = e.id =>
                    \A i \in 1..Len(d.loans) :
                        e.loans[i] # d.loans[i] =>
                            Pair(e.loans[i]) = <<"Overdue", "overdue">>]_vars

\* C24 witness: setStatus(id, 'Overdue') has succeeded on a loan that is not
\* past its due date, and the stored loan has the pair (Overdue, overdue).
C24_Witness ==
    /\ rsp.op = "setStatus" /\ rsp.code = 200 /\ rsp.status = "Overdue"
    /\ Pair(rsp.data[1]) = <<"Overdue", "overdue">>
    /\ rsp.data[1].dueDate >= rsp.at
    /\ \E d \in store : \E i \in 1..Len(d.loans) : d.loans[i] = rsp.data[1]

\* The sum of field f of the entries of the breakdown under the keys.
RECURSIVE SumOfBreakdown(_, _, _)
SumOfBreakdown(breakdown, keys, f) ==
    IF keys = {} THEN 0
    ELSE LET k == CHOOSE x \in keys : TRUE
         IN  breakdown[k][f] + SumOfBreakdown(breakdown, keys \ {k}, f)

\* The sum of finalLoanAmount over the loans at the positions.
RECURSIVE SumAmounts(_, _)
SumAmounts(loans, positions) ==
    IF positions = {} THEN 0
    ELSE LET i == CHOOSE x \in positions : TRUE
         IN  loans[i].finalLoanAmount + SumAmounts(loans, positions \ {i})

\* C25: summary and jewelTypeSummary of query() are computed over the filtered
\* loans, whatever the page: summary.totalLoans is totalItems, the number of
\* filtered loans; the counts of the breakdown sum to totalItems and its
\* totalAmounts sum to summary.totalLoanAmount, the sum over the filtered
\* loans; activeLoans + overdueLoans + closedLoans <= totalLoans; and with
\* jewelTypeFilter = T the breakdown has no key other than T and its count
\* for T is the number of loans the filter leaves.
C25_SummaryOverFilteredSet ==
    QueryDone /\ rsp.lazy # "failed" =>
        LET filtered == ApplyFilters(rsp.snapshot, rsp.params)
            breakdown == rsp.jewelTypeSummary
            T == rsp.params.jewelTypeFilter
        IN  /\ rsp.totalItems = Len(filtered)
            /\ rsp.summary.totalLoans = rsp.totalItems
            /\ SumOfBreakdown(breakdown, DOMAIN breakdown, "count") = rsp.totalItems
            /\ SumOfBreakdown(breakdown, DOMAIN breakdown, "totalAmount")
                    = rsp.summary.totalLoanAmount
            /\ rsp.summary.totalLoanAmount = SumAmounts(filtered, 1..Len(filtered))
            /\ rsp.summary.activeLoans + rsp.summary.overdueLoans
                    + rsp.summary.closedLoans <= rsp.summary.totalLoans
            /\ T \notin {"", "all"} =>
                /\ DOMAIN breakdown \subseteq {T}
                /\ rsp.totalItems > 0 =>
                    /\ T \in DOMAIN breakdown
                    /\ breakdown[T].count = rsp.totalItems
                    /\ breakdown[T].count =
                        Cardinality({i \in 1..Len(rsp.snapshot) :
                                        /\ rsp.snapshot[i].jewelType = T
                                        /\ Matches(rsp.snapshot[i], rsp.params)})

\* C25 witness: a query with jewelTypeFilter gold and one loan per page on a
\* snapshot of gold and silver loans, one of them inactive: the page holds one
\* loan and the breakdown counts the four gold loans under its only key.
C25_Witness ==
    /\ QueryDone /\ rsp.lazy # "failed"
    /\ rsp.params.jewelTypeFilter = "gold" /\ rsp.params.limit = 1
    /\ Len(rsp.data) = 1
    /\ DOMAIN rsp.jewelTypeSummary = {"gold"}
    /\ rsp.jewelTypeSummary["gold"].count = 4
    /\ rsp.summary.totalLoans = 4
    /\ rsp.summary.activeLoans + rsp.summary.overdueLoans
            + rsp.summary.closedLoans < 4
    /\ \E i \in 1..Len(rsp.snapshot) : rsp.snapshot[i].jewelType = "silver"

\* C26: the snapshot the lazy population of query() persists has a loans
\* array equal, field by field, to the one sync() would persist from the same
\* collections at the same time.
C26_LazyPopulationIsSync ==
    [][\A p \in procs :
        pc[p] = "queryPopulate" /\ pc'[p] = "idle" /\ rsp'.lazy = "saved" =>
            \E d \in store' :
                /\ d.id = loc[p].docId
                /\ StripIds(d.loans) =
                        BuildLoans(vouchers, dayBooks, rsp'.at,
                                   rsp'.vFault, rsp'.dFault)]_vars

\* The target model: snapshots of the day-books, two of whose loans carry the
\* same voucher reference, populated by queries that may overlap, and the
\* setStatus requests of one client.
InitTarget ==
    InitWith(Procs, MaxDocs - 1, {{}}, {Prefix(DayBookPool, MaxDayBooks)})

\* The ids the setStatus requests of the target model name: the voucher
\* reference two loans share, and the _id of the second of them.
TargetIds == {VoucherRef(8), LoanId(MaxDocs, 3)}

NextTarget ==
    \/ \E p \in procs : QueryFind(p, Params(<<>>, <<>>, "", "", 1, DefaultLimit))
    \/ \E p \in procs : QueryPopulate(p)
    \/ \E id \in TargetIds, status \in {"Active", "Closed"} :
            SetStatusFind(1, id, status)
    \/ SetStatusSave(1)

SpecTarget == InitTarget /\ [][NextTarget]_vars

\* Position i holds the first loan of the array whose _id or voucherId is id.
IsFirstMatch(loans, i, id) ==
    /\ i \in 1..Len(loans)
    /\ loans[i].id = id \/ loans[i].voucherId = id
    /\ \A j \in 1..(i - 1) : loans[j].id # id /\ loans[j].voucherId # id

\* C27: a setStatus(id, s) works on a most recently updated snapshot, and on
\* success it has changed one loan only, the first loan of that snapshot whose
\* _id or voucherId is id: every other loan of the snapshot and every other
\* snapshot document are as before, and so are the number and the order of
\* the loans.
C27_OneLoanModified ==
    [][\A p \in procs :
        /\ pc[p] = "idle" /\ pc'[p] = "setStatusSave" =>
            \E d \in Latest(store) : d.id = loc'[p].doc.id
        /\ pc[p] = "setStatusSave" /\ pc'[p] = "idle" /\ rsp'.code = 200 =>
            \E d \in store, e \in store' :
                /\ d.id = e.id /\ d.id = loc[p].doc.id
                /\ store' \ {e} = store \ {d}
                /\ Len(e.loans) = Len(d.loans)
                /\ \E i \in 1..Len(d.loans) :
                    /\ IsFirstMatch(d.loans, i, rsp'.id)
                    /\ e.loans[i].status = rsp'.status
                    /\ e.loans[i].id = d.loans[i].id
                    /\ e.loans[i].billNo = d.loans[i].billNo
                    /\ rsp'.data = <<e.loans[i]>>
                    /\ \A j \in 1..Len(d.loans) :
                            j # i => e.loans[j] = d.loans[j]]_vars

\* C27 witness: two snapshots are stored and two loans of each carry the
\* voucher reference a successful setStatus(id, 'Active') named; the first of
\* the two, closed before, is Active in one snapshot, the second is as the
\* reader made it, and the other snapshot still has the first one closed.
C27_Witness ==
    /\ rsp.op = "setStatus" /\ rsp.code = 200
    /\ rsp.id = VoucherRef(8) /\ rsp.status = "Active"
    /\ \E d, o \in store :
        /\ d.id # o.id
        /\ Len(d.loans) = 3 /\ Len(o.loans) = 3
        /\ d.loans[2].voucherId = VoucherRef(8) /\ d.loans[2].status = "Active"
        /\ d.loans[3].voucherId = VoucherRef(8) /\ d.loans[3].status # "Active"
        /\ o.loans[2].voucherId = VoucherRef(8) /\ o.loans[2].status = "Closed"

\* The two loans differ at most in status and loanStatus.
SameButStatus(before, after) ==
    [after EXCEPT !.status = before.status, !.loanStatus = before.loanStatus]
        = before

\* C28: a successful setStatus to Active, Partial or Overdue changes, in the
\* loan, status and loanStatus only, and in the snapshot, that loan and
\* lastUpdated only: repaidAmount, balanceAmount, paymentProgress, closedDate
\* and daysOverdue are as before.  So a loan closed by setStatus and set back
\* to Active keeps balanceAmount 0, paymentProgress 100 and its closedDate.
C28_ReopeningKeepsSettlement ==
    [][\A p \in procs :
        /\ pc[p] = "setStatusSave" /\ pc'[p] = "idle" /\ rsp'.code = 200
        /\ rsp'.status \in {"Active", "Partial", "Overdue"}
        => \E d \in store, e \in store' :
                /\ d.id = e.id /\ d.id = loc[p].doc.id
                /\ [e EXCEPT !.loans = d.loans, !.lastUpdated = d.lastUpdated] = d
                /\ e.lastUpdated = rsp'.at
                /\ Len(e.loans) = Len(d.loans)
                /\ LET before == d.loans[loc[p].idx]
                       after == e.loans[loc[p].idx]
                   IN  /\ SameButStatus(before, after)
                       /\ after.repaidAmount = before.repaidAmount
                       /\ after.balanceAmount = before.balanceAmount
                       /\ after.paymentProgress = before.paymentProgress
                       /\ after.closedDate = before.closedDate
                       /\ after.daysOverdue = before.daysOverdue
                       /\ after.status = rsp'.status
                       /\ after.loanStatus # "closed"]_vars

\* C28 witness: the loan of a voucher that is Active in its source, with a
\* balance due, was closed by setStatus and then set back to Active: it is
\* active with balanceAmount 0, paymentProgress 100 and the closedDate the
\* closure gave it.
C28_Witness ==
    /\ rsp.op = "setStatus" /\ rsp.code = 200
    /\ rsp.id = VoucherRef(1) /\ rsp.status = "Active"
    /\ \E v \in vouchers :
        /\ v.id = VoucherRef(1) /\ v.status = "Active" /\ v.balanceAmount > 0
        /\ v.closedDate = <<>>
    /\ \E d \in store : \E i \in 1..Len(d.loans) :
        /\ d.loans[i] = rsp.data[1]
        /\ d.loans[i].voucherId = VoucherRef(1)
        /\ Pair(d.loans[i]) = <<"Active", "active">>
        /\ d.loans[i].balanceAmount = 0
        /\ d.loans[i].paymentProgress = 100
        /\ d.loans[i].closedDate # <<>>

\* The positions of the loans of the array that carry the voucher reference.
WithVoucherId(loans, ref) == {i \in 1..Len(loans) : loans[i].voucherId = ref}

\* The voucher references of the qualifying transactions of the day-books.
DayBookVoucherRefs ==
    UNION {{db.loansDisbursed[k].voucherId : k \in 1..Len(db.loansDisbursed)}
           \cup {db.closedLoans[k].voucherId : k \in 1..Len(db.closedLoans)} :
           db \in dayBooks} \ {<<>>}

\* The qualifying transactions of the day-books that carry the reference.
TransactionsWithVoucherId(ref) ==
    UNION {{<<db.id, FALSE, k>> : k \in {j \in 1..Len(db.loansDisbursed) :
                /\ CarriesBoth(db.loansDisbursed[j])
                /\ db.loansDisbursed[j].voucherId = ref}}
           \cup
           {<<db.id, TRUE, k>> : k \in {j \in 1..Len(db.closedLoans) :
                /\ CarriesBoth(db.closedLoans[j])
                /\ db.closedLoans[j].voucherId = ref}} :
           db \in dayBooks}

\* C29 as stated: in the snapshot of every sync(), from either source, no two
\* loans share a voucherId.
C29_UniqueVoucherId ==
    SyncDone =>
        \A i, j \in 1..Len(rsp.snapshot) :
            rsp.snapshot[i].voucherId = rsp.snapshot[j].voucherId => i = j

\* C29 amended: in the snapshot of a sync() that read the vouchers no two
\* loans share a voucherId; in one read from the day-books a voucher reference
\* is carried by as many loans as there are qualifying transactions with that
\* reference, which can be two or more (the disbursement and the closure of a
\* loan), and a lookup by that reference finds the first of them in stored
\* order.
C29_UniqueVoucherIdFromVouchers ==
    SyncDone =>
        /\ AllOfType(rsp.snapshot, "voucher") =>
            \A i, j \in 1..Len(rsp.snapshot) :
                rsp.snapshot[i].voucherId = rsp.snapshot[j].voucherId => i = j
        /\ SyncedFromDayBooks =>
            \A ref \in DayBookVoucherRefs :
                /\ Cardinality(WithVoucherId(rsp.snapshot, ref))
                        = Cardinality(TransactionsWithVoucherId(ref))
                /\ WithVoucherId(rsp.snapshot, ref) # {} =>
                    /\ FindIndex(rsp.snapshot, ref) \in WithVoucherId(rsp.snapshot, ref)
                    /\ \A i \in WithVoucherId(rsp.snapshot, ref) :
                            FindIndex(rsp.snapshot, ref) <= i

\* C29 witness: a snapshot read from the day-books holds two loans with the
\* same voucherId, one from the closure and one from the disbursement of the
\* loan, and a lookup by that reference finds the closed one, stored first.
C29_Witness ==
    /\ SyncedFromDayBooks
    /\ \E i, j \in 1..Len(rsp.snapshot) :
        /\ i < j
        /\ rsp.snapshot[i].voucherId = rsp.snapshot[j].voucherId
        /\ rsp.snapshot[i].status = "Closed"
        /\ rsp.snapshot[j].status # "Closed"
        /\ FindIndex(rsp.snapshot, rsp.snapshot[j].voucherId) = i

\* No loan of a current snapshot is active with its due date before today.
NoneActiveAndDue(docs, today) ==
    \A d \in Latest(docs) :
        \A i \in 1..Len(d.loans) :
            ~(d.loans[i].loanStatus = "active" /\ d.loans[i].dueDate < today)

\* C30: when a sweepOverdue() run at time now completes, no loan of the
\* current snapshot is active with its dueDate before now, and every loan the
\* sweep changed has status 'Overdue', loanStatus 'overdue' and daysOverdue
\* the number of days from its dueDate to now, rounded up, at least 1.
C30_NoActiveLoanDueAfterSweep ==
    [][\A p \in procs :
        /\ pc'[p] = "idle" /\ rsp'.op = "sweep" /\ rsp'.by = p /\ rsp' # rsp
           /\ rsp'.code = 200 =>
            /\ store' # {}
            /\ NoneActiveAndDue(store', rsp'.at)
        /\ pc[p] = "sweepSave" /\ pc'[p] = "idle" /\ rsp'.code = 200 =>
            \A d \in store, e \in store' :
                d.id = e.id =>
                    \A i \in 1..Len(d.loans) :
                        e.loans[i] # d.loans[i] =>
                            /\ e.loans[i].status = "Overdue"
                            /\ e.loans[i].loanStatus = "overdue"
                            /\ e.loans[i].dueDate = d.loans[i].dueDate
                            /\ IsCeilDays(e.loans[i].daysOverdue,
                                          e.loans[i].dueDate, rsp'.at)
                            /\ e.loans[i].daysOverdue >= 1]_vars

\* C30 witness: a sweep run half a day after the due date of an active
\* voucher loan has marked it overdue by one day, and no loan of the snapshot
\* is active and due.
C30_Witness ==
    /\ rsp.op = "sweep" /\ rsp.code = 200 /\ rsp.modifiedCount > 0
    /\ NoneActiveAndDue(store, rsp.at)
    /\ \E d \in Latest(store) : \E i \in 1..Len(d.loans) :
        /\ d.loans[i].sourceType = "voucher"
        /\ Pair(d.loans[i]) = <<"Overdue", "overdue">>
        /\ (rsp.at - d.loans[i].dueDate) * 2 = DayLen
        /\ d.loans[i].daysOverdue = 1

====
